---- MODULE Spec2Model ----
(***************************************************************************)
(* The catalog store of suno_extractor (src/suno_core.py, SunoDatabase):   *)
(* the songs, tags, ratings, playlists and playlist_songs tables and the   *)
(* operations add_song, import_from_json, rate_song, create_playlist and   *)
(* add_to_playlist.                                                        *)
(*                                                                         *)
(* Text that the code inspects (URLs, identities, tags) is a sequence of   *)
(* one-character strings, so that the regular expression of                *)
(* extract_song_id and the startswith('v') test of add_song are computed.  *)
(* Text that the code only copies (title) is an atomic string; title       *)
(* stands for every column add_song copies verbatim from the record        *)
(* (title, artist, description, lyrics, duration, image_url, source_tab).  *)
(* A table is the set of its rows, with the columns the operations read or *)
(* decide on; the surrogate ids of tags and playlist_songs and the         *)
(* created_at / added_at stamps are left out. The constraints of the schema *)
(* (PRIMARY KEY, UNIQUE, CHECK) are applied by the insert operators, and   *)
(* FOREIGN KEY clauses are not, because _get_connection never issues       *)
(* PRAGMA foreign_keys = ON and SQLite leaves them off by default.         *)
(*                                                                         *)
(* Beside the catalog: play_history (record_play, get_play_count),         *)
(* search_songs with the LIKE operator of SQLite, an import followed       *)
(* statement by statement with its transaction, the conversions            *)
(* parse_duration and format_duration (src/suno_utils.py), and of the      *)
(* extractor (src/suno_extractor.py) the pagination of a tab, the scroll   *)
(* loop and run_extraction, the calls of extract_all_songs on one          *)
(* extractor, extract_detailed_info, the tags of _parse_song_element,      *)
(* update_audio_info, and two add_to_playlist calls that run at once on    *)
(* connections of their own. Each part has its own specification; the      *)
(* parts that a specification does not run stay as Init left them.         *)
(***************************************************************************)
EXTENDS Integers, Sequences, FiniteSets, TLC

VARIABLES
    songs,           \* table songs: set of rows
    tags,            \* table tags: set of rows [song_id, tag]
    ratings,         \* table ratings: set of rows [song_id, rating, rated_at]
    playlists,       \* table playlists: set of rows [id, name]
    playlist_songs,  \* table playlist_songs: rows [playlist_id, song_id, position]
    seq,             \* sqlite_sequence: the last AUTOINCREMENT id of playlists
    clock,           \* the last value datetime.now() returned
    last,            \* the most recent call: its name, arguments, result
    imported,        \* identities for which add_song has returned True
    accepted,        \* song_id -> the last accepted rate_song, and whether it replaced one
    run,             \* the import experiment (two catalogs side by side)
    play_history,    \* table play_history: set of rows [id, song_id, played_at]
    play_seq,        \* sqlite_sequence: the last AUTOINCREMENT id of play_history
    plays,           \* song_id -> the number of record_play calls made for it
    pager,           \* _extract_all_pages_for_tab: its arguments, the site, its result
    scroller,        \* scroll_to_load_all: its locals, the page, what each iteration saw
    conv,            \* a duration and what parse_duration / format_duration made of it
    job,             \* run_extraction: its arguments, its locals, how it ended
    txn,             \* an import in steps: its position and its open transaction
    harvest,         \* one SunoExtractor under repeated extract_all_songs calls
    detail,          \* extract_detailed_info: the list, the pages, the position
    parsed,          \* a fragment and what _parse_song_element made of it
    procs            \* two add_to_playlist calls, each at its own statement

\* the play history and its bookkeeping
playVars == <<play_history, play_seq, plays>>

\* the state no catalog operation of this module touches
later == <<harvest, detail, parsed, procs>>

elsewhere == <<playVars, pager, scroller, conv, job, txn, later>>

vars == <<songs, tags, ratings, playlists, playlist_songs, seq, clock, last,
          imported, accepted, run, elsewhere>>

(***************************************************************************)
(* Bounds of the model.                                                    *)
(***************************************************************************)
MaxClock == 1
MaxBatch == 2
MaxEntries == 3
MaxPlays == 3
MaxPages == 3
MaxScrolls == 7
MaxSeconds == 3700
MaxText == 4
MaxQuery == 2
MaxCalls == 3
MaxTagElements == 3

(***************************************************************************)
(* Text.                                                                   *)
(***************************************************************************)
Rep(c, n) == [i \in 1..n |-> c]

Min(S) == CHOOSE x \in S : \A y \in S : x <= y

Max(S) == CHOOSE x \in S : \A y \in S : y <= x

HexDigits == {"0", "1", "2", "3", "4", "5", "6", "7", "8", "9",
              "a", "b", "c", "d", "e", "f"}

\* the character class [a-f0-9-] of the pattern
IdChars == HexDigits \cup {"-"}

\* the repetition count {36} of the pattern
IdLen == 36

\* the literal prefix of the pattern
SongSeg == <<"/", "s", "o", "n", "g", "/">>

NULL == <<>>

\* 8-4-4-4-12 groups of one repeated character
Uuid(c) == Rep(c, 8) \o <<"-">> \o Rep(c, 4) \o <<"-">> \o Rep(c, 4)
           \o <<"-">> \o Rep(c, 4) \o <<"-">> \o Rep(c, 12)

Host == <<"s", "u", "n", "o", ".", "c", "o", "m">>

\* the pattern matches at position i of url
MatchAt(url, i) ==
    /\ i + Len(SongSeg) + IdLen - 1 <= Len(url)
    /\ \A j \in 1..Len(SongSeg) : url[i + j - 1] = SongSeg[j]
    /\ \A k \in (i + Len(SongSeg))..(i + Len(SongSeg) + IdLen - 1) :
           url[k] \in IdChars

\* re.search(r'/song/([a-f0-9-]{36})', url): group 1 of the leftmost match,
\* None (here NULL) when there is none
extract_song_id(url) ==
    LET starts == {i \in 1..Len(url) : MatchAt(url, i)}
    IN  IF starts = {} THEN NULL
        ELSE SubSeq(url, Min(starts) + Len(SongSeg),
                    Min(starts) + Len(SongSeg) + IdLen - 1)

\* str.lower() on the characters the model uses
LowerChar(c) == IF c = "V" THEN "v" ELSE c

\* tag.lower().startswith('v')
IsVersionTag(tag) == Len(tag) > 0 /\ LowerChar(tag[1]) = "v"

(***************************************************************************)
(* Inputs.                                                                 *)
(***************************************************************************)
Id1 == Uuid("1")

\* 36 characters of the class [a-f0-9-] that are not in 8-4-4-4-12 groups
IdHex == Rep("a", IdLen)

U1 == Host \o SongSeg \o Id1

\* the same song with a query string
U1q == U1 \o <<"?", "r">>

UHex == Host \o SongSeg \o IdHex

\* the 'invalid-url' of test_add_song_invalid_url
UBad == <<"i", "n", "v", "a", "l", "i", "d", "-", "u", "r", "l">>

\* song.get('url', '') of a record without url
UNone == <<>>

Urls == {U1, U1q, UHex, UBad, UNone}

\* extract_song_id tabulated over the URLs of the model
SongIdOf == [url \in Urls |-> extract_song_id(url)]

Titles == {"t1", "t2"}

TagA == <<"a">>

TagB == <<"b">>

TagC == <<"c">>

TagLists == {<<TagA, TagB>>, <<TagB, TagC>>, <<<<"V", "5">>, <<>>, <<"v", "4">>>>}

\* records as add_song receives them
Songs == [url : Urls, title : Titles, tags : TagLists]

\* records of the batches handed to import_from_json
BatchSongs ==
    { [url |-> U1,   title |-> "t1", tags |-> <<TagA, TagB>>],
      [url |-> U1,   title |-> "t2", tags |-> <<TagB, TagC>>],
      [url |-> U1q,  title |-> "t1", tags |-> <<<<"V", "5">>, <<>>, <<"v", "4">>>>],
      [url |-> UHex, title |-> "t1", tags |-> <<TagA, TagB>>],
      [url |-> UBad, title |-> "t2", tags |-> <<TagB, TagC>>] }

\* the record the rating and playlist scenarios import
SmallSongs == {[url |-> U1, title |-> "t1", tags |-> <<TagA, TagB>>]}

\* records that yield an identity and records that yield none
SongGood == [url |-> U1, title |-> "t1", tags |-> <<TagA, TagB>>]

SongAgain == [url |-> U1, title |-> "t2", tags |-> <<TagB, TagC>>]

SongHex == [url |-> UHex, title |-> "t2", tags |-> <<TagB, TagC>>]

SongBad == [url |-> UBad, title |-> "t2", tags |-> <<TagB, TagC>>]

SongNoUrl == [url |-> UNone, title |-> "t1", tags |-> <<TagA, TagB>>]

\* the song of the play scenario, and a re-import that changes it
PlaySongs ==
    { [url |-> U1, title |-> "t1", tags |-> <<TagA>>],
      [url |-> U1, title |-> "t2", tags |-> <<TagA>>] }

\* the "nonexistent-id" of test_get_nonexistent_song
NoSuchId == <<"n", "o", "n", "e", "x", "i", "s", "t", "e", "n", "t", "-", "i", "d">>

\* song_id arguments of add_to_playlist
SongIds == {Id1, IdHex, NoSuchId}

\* song_id arguments of rate_song
RatedIds == {Id1, NoSuchId}

\* rating arguments of rate_song: the ends of the range, their neighbours,
\* a value inside and the 7 of the rating scenario
RatingArgs == {0, 1, 3, 5, 6, 7}

\* get_rating's None
NoRating == -1

\* name arguments of create_playlist
Names == {"p", "q"}

\* playlist_id arguments of add_to_playlist
PlaylistIds == {1, 2}

RECURSIVE SeqsUpTo(_, _)
SeqsUpTo(S, n) ==
    IF n = 0 THEN {<<>>}
    ELSE LET shorter == SeqsUpTo(S, n - 1)
         IN  shorter \cup {Append(b, x) : b \in shorter, x \in S}

Batches == SeqsUpTo(BatchSongs, MaxBatch)

\* batches of import_from_json alone: the empty one, short ones, and longer
\* ones with a record in the middle that yields no identity
CountedBatches ==
    SeqsUpTo({SongGood, SongAgain, SongHex, SongBad}, 2)
        \cup {<<SongNoUrl, SongGood>>}
        \cup {<<SongGood, bad, SongHex>> : bad \in {SongBad, SongNoUrl}}

\* successive readings of datetime.now(): one per record, never decreasing
Readings(n, from) ==
    {t \in [1..n -> from..MaxClock] : \A i \in 1..(n - 1) : t[i] <= t[i + 1]}

(***************************************************************************)
(* add_song and import_from_json.                                          *)
(***************************************************************************)
\* a songs insert that deletes nothing: the conflict clause is lost
InsertSongNoReplace(tbl, row) == tbl \cup {row}

\* a songs insert that keeps the old row: OR IGNORE in place of OR REPLACE
InsertOrIgnoreSong(tbl, row) ==
    IF \E r \in tbl : r.id = row.id \/ r.url = row.url
    THEN tbl
    ELSE tbl \cup {row}

\* INSERT OR REPLACE INTO songs: the rows that conflict with the new row on
\* the PRIMARY KEY (id) or on UNIQUE (url) are deleted, then it is inserted
InsertOrReplaceSong(tbl, row) ==
    {r \in tbl : r.id # row.id /\ r.url # row.url} \cup {row}

\* INSERT OR IGNORE INTO tags: UNIQUE(song_id, tag)
InsertOrIgnoreTag(tbl, row) ==
    IF \E r \in tbl : r.song_id = row.song_id /\ r.tag = row.tag
    THEN tbl
    ELSE tbl \cup {row}

\* the first tag of the record that starts with v or V, else None
SunoVersion(taglist) ==
    LET vs == {i \in 1..Len(taglist) : IsVersionTag(taglist[i])}
    IN  IF vs = {} THEN NULL ELSE taglist[Min(vs)]

\* the loop "for tag in song.get('tags', [])" that adds the tags
RECURSIVE AddTags(_, _, _)
AddTags(tbl, song_id, taglist) ==
    IF taglist = <<>> THEN tbl
    ELSE LET tag == Head(taglist)
             next == IF tag # <<>> /\ ~IsVersionTag(tag)
                     THEN InsertOrIgnoreTag(tbl, [song_id |-> song_id, tag |-> tag])
                     ELSE tbl
         IN  AddTags(next, song_id, Tail(taglist))

\* NULL in the column downloaded_at, whose values are times
NoTime == -1

\* the row add_song writes; the columns the statement does not list (the
\* columns update_audio_info sets among them) take their default, NULL
SongRow(song_id, song, now) ==
    [id |-> song_id, title |-> song.title, url |-> song.url,
     suno_version |-> SunoVersion(song.tags), extracted_at |-> now,
     local_audio_path |-> "NULL", local_cover_path |-> "NULL",
     downloaded_at |-> NoTime, file_size |-> "NULL", audio_format |-> "NULL",
     bpm |-> "NULL", musical_key |-> "NULL", waveform_path |-> "NULL"]

\* add_song that writes the tags the way it writes the song row: the tag
\* rows the song had are deleted before the record's tags are inserted
add_song_replacing_tags(cat, song, now) ==
    LET song_id == SongIdOf[song.url]
    IN  IF song_id = NULL
        THEN [ret |-> FALSE, songs |-> cat.songs, tags |-> cat.tags]
        ELSE [ret |-> TRUE,
              songs |-> InsertOrReplaceSong(cat.songs, SongRow(song_id, song, now)),
              tags |-> AddTags({r \in cat.tags : r.song_id # song_id},
                               song_id, song.tags)]

\* add_song on a catalog [songs, tags]: the result and the catalog it commits
add_song(cat, song, now) ==
    LET song_id == SongIdOf[song.url]   \* self.extract_song_id(song.get('url', ''))
    IN  IF song_id = NULL
        THEN [ret |-> FALSE, songs |-> cat.songs, tags |-> cat.tags]
        ELSE [ret |-> TRUE,
              songs |-> InsertOrReplaceSong(cat.songs, SongRow(song_id, song, now)),
              tags |-> AddTags(cat.tags, song_id, song.tags)]

\* the loop of import_from_json from record i on; acc carries the count
RECURSIVE ImportLoop(_, _, _, _)
ImportLoop(acc, batch, times, i) ==
    IF i > Len(batch) THEN acc
    ELSE LET r == add_song(acc, batch[i], times[i])
         IN  ImportLoop([count |-> IF r.ret THEN acc.count + 1 ELSE acc.count,
                         songs |-> r.songs, tags |-> r.tags],
                        batch, times, i + 1)

\* import_from_json that returns len(songs)
import_from_json_counting_all(cat, batch, times) ==
    [ImportLoop([count |-> 0, songs |-> cat.songs, tags |-> cat.tags],
                batch, times, 1) EXCEPT !.count = Len(batch)]

import_from_json(cat, batch, times) ==
    ImportLoop([count |-> 0, songs |-> cat.songs, tags |-> cat.tags],
               batch, times, 1)

\* identities of the records of a batch that add_song accepts
BatchIds(batch) ==
    {SongIdOf[batch[i].url] : i \in 1..Len(batch)} \ {NULL}

(***************************************************************************)
(* rate_song and get_rating.                                               *)
(***************************************************************************)
\* the range test without its lower bound
ValidRatingNoLowerBound(rating) == rating <= 5

\* the test "1 <= rating <= 5" of rate_song
ValidRating(rating) == 1 <= rating /\ rating <= 5

\* CHECK(rating >= 1 AND rating <= 5) of the ratings table
CheckRating(row) == row.rating >= 1 /\ row.rating <= 5

\* a ratings insert that deletes nothing
InsertRatingNoReplace(tbl, row) == tbl \cup {row}

\* INSERT OR REPLACE INTO ratings: PRIMARY KEY (song_id)
InsertOrReplaceRating(tbl, row) ==
    {r \in tbl : r.song_id # row.song_id} \cup {row}

\* rate_song on the ratings table: the result, whether sqlite3.IntegrityError
\* escapes, and the table it commits
rate_song(tbl, song_id, rating, now) ==
    LET row == [song_id |-> song_id, rating |-> rating, rated_at |-> now]
    IN  IF ~ValidRating(rating)
        THEN [ret |-> FALSE, raised |-> FALSE, ratings |-> tbl]
        ELSE IF ~CheckRating(row)
        THEN [ret |-> FALSE, raised |-> TRUE, ratings |-> tbl]
        ELSE [ret |-> TRUE, raised |-> FALSE,
              ratings |-> InsertOrReplaceRating(tbl, row)]

\* get_rating: the rating of the first row found, None without a row
get_rating(tbl, song_id) ==
    LET rows == {r \in tbl : r.song_id = song_id}
    IN  IF rows = {} THEN NoRating ELSE (CHOOSE r \in rows : TRUE).rating

(***************************************************************************)
(* create_playlist and add_to_playlist.                                    *)
(***************************************************************************)
\* the maximum taken over the whole table: the WHERE clause is lost
NextPositionAnyPlaylist(tbl, playlist_id) ==
    (IF tbl = {} THEN 0 ELSE Max({r.position : r \in tbl})) + 1

\* SELECT MAX(position) ... WHERE playlist_id = ?, then (max_pos or 0) + 1
NextPosition(tbl, playlist_id) ==
    LET ps == {r.position : r \in {x \in tbl : x.playlist_id = playlist_id}}
    IN  (IF ps = {} THEN 0 ELSE Max(ps)) + 1

\* a playlist_songs table without its UNIQUE constraint
NoPairConflict(tbl, row) == FALSE

\* UNIQUE(playlist_id, song_id) of playlist_songs
PairConflict(tbl, row) ==
    \E r \in tbl : r.playlist_id = row.playlist_id /\ r.song_id = row.song_id

\* add_to_playlist on the playlist_songs table: IntegrityError is caught
add_to_playlist(tbl, playlist_id, song_id) ==
    LET row == [playlist_id |-> playlist_id, song_id |-> song_id,
                position |-> NextPosition(tbl, playlist_id)]
    IN  IF PairConflict(tbl, row)
        THEN [ret |-> FALSE, playlist_songs |-> tbl]
        ELSE [ret |-> TRUE, playlist_songs |-> tbl \cup {row}]

\* UNIQUE(name) of playlists
NameConflict(tbl, name) == \E r \in tbl : r.name = name

(***************************************************************************)
(* play_history: id INTEGER PRIMARY KEY AUTOINCREMENT, song_id, played_at  *)
(* (duration_played and completed are copied from the arguments and read   *)
(* by nothing here). The table has no UNIQUE constraint besides its id.    *)
(***************************************************************************)
\* INSERT OR IGNORE with song_id as a key: one event per song
record_play_once(tbl, counter, song_id, now) ==
    IF \E r \in tbl : r.song_id = song_id
    THEN [play_history |-> tbl, play_seq |-> counter]
    ELSE [play_history |-> tbl \cup {[id |-> counter + 1, song_id |-> song_id,
                                       played_at |-> now]},
          play_seq |-> counter + 1]

\* INSERT INTO play_history (song_id, played_at, ...): the row takes the
\* next AUTOINCREMENT id, one above the largest ever handed out
record_play(tbl, counter, song_id, now) ==
    [play_history |-> tbl \cup {[id |-> counter + 1, song_id |-> song_id,
                                  played_at |-> now]},
     play_seq |-> counter + 1]

\* SELECT COUNT(*) FROM play_history WHERE song_id = ?
get_play_count(tbl, song_id) ==
    Cardinality({r \in tbl : r.song_id = song_id})

(***************************************************************************)
(* search_songs: SELECT * FROM songs WHERE f1 LIKE ? OR f2 LIKE ? ..., each *)
(* parameter being '%' + query + '%'. The text columns searched here have  *)
(* their characters: the titles of SearchSongs and the url.                *)
(***************************************************************************)
UpperCase == <<"A", "J", "K", "O", "R", "Z">>

LowerCase == <<"a", "j", "k", "o", "r", "z">>

\* the case folding of LIKE, on the letters the model uses
Fold(c) ==
    IF \E k \in 1..Len(UpperCase) : UpperCase[k] = c
    THEN LowerCase[CHOOSE k \in 1..Len(UpperCase) : UpperCase[k] = c]
    ELSE c

\* the pattern from its i-th character on matches the text from its j-th
\* character on: '%' stands for any run of characters, '_' for any one
\* character, every other character for itself in either case
RECURSIVE LikeFrom(_, _, _, _)
LikeFrom(pattern, text, i, j) ==
    IF i > Len(pattern) THEN j > Len(text)
    ELSE IF pattern[i] = "%"
         THEN LikeFrom(pattern, text, i + 1, j)
              \/ (j <= Len(text) /\ LikeFrom(pattern, text, i, j + 1))
    ELSE IF j > Len(text) THEN FALSE
    ELSE IF pattern[i] = "_" THEN LikeFrom(pattern, text, i + 1, j + 1)
    ELSE Fold(pattern[i]) = Fold(text[j])
         /\ LikeFrom(pattern, text, i + 1, j + 1)

\* text LIKE pattern
Like(pattern, text) == LikeFrom(pattern, text, 1, 1)

\* f'%{query}%'
LikeParam(query) == <<"%">> \o query \o <<"%">>

\* the rows search_songs returns
search_songs(tbl, query, fields) ==
    {r \in tbl : \E k \in 1..Len(fields) : Like(LikeParam(query), r[fields[k]])}

\* titles in the manner of test_search_songs, and two with LIKE's characters
TitleRock == <<"R", "o", "c", "k">>

TitleJazz == <<"J", "a", "z", "z">>

TitlePercent == <<"5", "0", "%">>

TitleUnderscore == <<"a", "_", "z">>

SearchSongs ==
    { [url |-> U1, title |-> TitleRock, tags |-> <<>>],
      [url |-> UHex, title |-> TitlePercent, tags |-> <<>>],
      [url |-> U1q, title |-> TitleUnderscore, tags |-> <<>>],
      [url |-> U1, title |-> TitleJazz, tags |-> <<>>] }

QueryChars == {"O", "z", "%", "_"}

\* query arguments: every text of up to MaxQuery characters, and a word
Queries ==
    UNION {[1..n -> QueryChars] : n \in 0..MaxQuery} \cup {<<"r", "o", "c", "k">>}

\* fields arguments; title stands for the default list
FieldLists == {<<"title">>, <<"title", "url">>}

(***************************************************************************)
(* The state machine.                                                      *)
(***************************************************************************)
Catalog == [songs |-> songs, tags |-> tags]

EmptyCatalog == [songs |-> {}, tags |-> {}]

Idle == [pc |-> "idle"]

\* a fresh database file: init_database has created the empty tables
InitCatalog ==
    /\ songs = {}
    /\ tags = {}
    /\ ratings = {}
    /\ playlists = {}
    /\ playlist_songs = {}
    /\ seq = 0
    /\ clock = 0
    /\ last = [op |-> "init"]
    /\ imported = {}
    /\ accepted = [i \in RatedIds |-> [value |-> NoRating, rerated |-> FALSE]]
    /\ play_history = {}
    /\ play_seq = 0
    /\ plays = [i \in RatedIds |-> 0]

\* a part of the program that is not running
Off == [pc |-> "off"]

\* nothing of the program but the part named has been started
OthersOff(part) ==
    /\ part = "pager" \/ pager = Off
    /\ part = "scroller" \/ scroller = Off
    /\ part = "conv" \/ conv = Off
    /\ part = "job" \/ job = Off
    /\ part = "txn" \/ txn = Off
    /\ part = "harvest" \/ harvest = Off
    /\ part = "detail" \/ detail = Off
    /\ part = "parsed" \/ parsed = Off
    /\ part = "procs" \/ procs = Off

\* nothing else of the program has run yet
InitElsewhere ==
    OthersOff("catalog")

Init ==
    /\ InitCatalog
    /\ InitElsewhere
    /\ run = Idle

AddSong(song) ==
    \E now \in clock..MaxClock :
        LET r == add_song(Catalog, song, now)
        IN  /\ songs' = r.songs
            /\ tags' = r.tags
            /\ clock' = IF r.ret THEN now ELSE clock
            /\ last' = [op |-> "add_song", song |-> song, ret |-> r.ret]
            /\ imported' = IF r.ret
                           THEN imported \cup {SongIdOf[song.url]}
                           ELSE imported
            /\ UNCHANGED <<ratings, playlists, playlist_songs, seq, accepted, run>>
            /\ UNCHANGED elsewhere

\* import_from_json on the catalog; the caller says what becomes of run
ImportFromJson(batch) ==
    \E times \in Readings(Len(batch), clock) :
        LET r == import_from_json(Catalog, batch, times)
        IN  /\ songs' = r.songs
            /\ tags' = r.tags
            /\ clock' = IF batch = <<>> THEN clock ELSE times[Len(batch)]
            /\ last' = [op |-> "import_from_json", batch |-> batch, ret |-> r.count]
            /\ imported' = imported \cup BatchIds(batch)
            /\ UNCHANGED <<ratings, playlists, playlist_songs, seq, accepted>>
            /\ UNCHANGED elsewhere

RateSong(song_id, rating) ==
    \E now \in clock..MaxClock :
        LET r == rate_song(ratings, song_id, rating, now)
        IN  /\ ratings' = r.ratings
            /\ clock' = IF r.ret THEN now ELSE clock
            /\ last' = [op |-> "rate_song", song_id |-> song_id,
                        rating |-> rating, ret |-> r.ret, raised |-> r.raised]
            /\ accepted' = IF r.ret
                           THEN [accepted EXCEPT ![song_id] =
                                    [value |-> rating,
                                     rerated |-> accepted[song_id].value # NoRating]]
                           ELSE accepted
            /\ UNCHANGED <<songs, tags, playlists, playlist_songs, seq,
                           imported, run>>
            /\ UNCHANGED elsewhere

\* create_playlist: the INSERT raises IntegrityError on a name in use;
\* otherwise the row gets the next AUTOINCREMENT id, which is returned
CreatePlaylist(name) ==
    /\ IF NameConflict(playlists, name)
       THEN /\ last' = [op |-> "create_playlist", name |-> name,
                        ret |-> 0, raised |-> TRUE]
            /\ UNCHANGED <<playlists, seq>>
       ELSE /\ playlists' = playlists \cup {[id |-> seq + 1, name |-> name]}
            /\ seq' = seq + 1
            /\ last' = [op |-> "create_playlist", name |-> name,
                        ret |-> seq + 1, raised |-> FALSE]
    /\ UNCHANGED <<songs, tags, ratings, playlist_songs, clock, imported,
                   accepted, run>>
    /\ UNCHANGED elsewhere

AddToPlaylist(playlist_id, song_id) ==
    LET r == add_to_playlist(playlist_songs, playlist_id, song_id)
    IN  /\ r.ret => Cardinality(playlist_songs) < MaxEntries
        /\ playlist_songs' = r.playlist_songs
        /\ last' = [op |-> "add_to_playlist", playlist_id |-> playlist_id,
                    song_id |-> song_id, ret |-> r.ret]
        /\ UNCHANGED <<songs, tags, ratings, playlists, seq, clock, imported,
                       accepted, run>>
        /\ UNCHANGED elsewhere

\* the catalog under add_song calls
Next ==
    \E song \in Songs : AddSong(song)

Spec == Init /\ [][Next]_vars

\* the catalog under add_song and rate_song calls
NextRatings ==
    \/ \E song \in SmallSongs : AddSong(song)
    \/ \E song_id \in RatedIds, rating \in RatingArgs : RateSong(song_id, rating)

SpecRatings == Init /\ [][NextRatings]_vars

\* the catalog under add_song, create_playlist and add_to_playlist calls
NextPlaylists ==
    \/ \E song \in SmallSongs : AddSong(song)
    \/ \E name \in Names : CreatePlaylist(name)
    \/ \E playlist_id \in PlaylistIds, song_id \in SongIds :
           AddToPlaylist(playlist_id, song_id)

SpecPlaylists == Init /\ [][NextPlaylists]_vars

\* record_play(song_id): called at most MaxPlays times in a run
RecordPlay(song_id) ==
    /\ play_seq < MaxPlays
    /\ \E now \in clock..MaxClock :
           LET r == record_play(play_history, play_seq, song_id, now)
           IN  /\ play_history' = r.play_history
               /\ play_seq' = r.play_seq
               /\ clock' = now
               /\ last' = [op |-> "record_play", song_id |-> song_id]
               /\ plays' = [plays EXCEPT ![song_id] = @ + 1]
    /\ UNCHANGED <<songs, tags, ratings, playlists, playlist_songs, seq,
                   imported, accepted, run, pager, scroller, conv, job, txn,
                   later>>

\* the catalog under record_play calls, between re-imports of the song,
\* ratings and playlist changes
NextPlays ==
    \/ \E song \in PlaySongs : AddSong(song)
    \/ RateSong(Id1, 5)
    \/ CreatePlaylist("p")
    \/ AddToPlaylist(1, Id1)
    \/ \E song_id \in RatedIds : RecordPlay(song_id)

SpecPlays == Init /\ [][NextPlays]_vars

\* import_from_json on the catalog, nothing else running
ImportBatch(batch) ==
    /\ ImportFromJson(batch)
    /\ UNCHANGED run

\* the catalog under import_from_json calls
NextImport ==
    \E batch \in CountedBatches : ImportBatch(batch)

SpecImport == Init /\ [][NextImport]_vars

\* search_songs(query, fields): reads the songs table
SearchSongsFor(query, fields) ==
    /\ last' = [op |-> "search_songs", query |-> query, fields |-> fields,
                ret |-> search_songs(songs, query, fields)]
    /\ UNCHANGED <<songs, tags, ratings, playlists, playlist_songs, seq, clock,
                   imported, accepted, run>>
    /\ UNCHANGED elsewhere

\* the catalog under add_song and search_songs calls
NextSearch ==
    \/ \E song \in SearchSongs : AddSong(song)
    \/ \E query \in Queries, fields \in FieldLists : SearchSongsFor(query, fields)

SpecSearch == Init /\ [][NextSearch]_vars

(***************************************************************************)
(* The import experiment: batch b1 is imported, then batch b2, then b2     *)
(* again, each by one import_from_json call on the catalog; beside it the  *)
(* concatenation b1 \o b2 is imported by one call into an empty catalog.   *)
(* run.once is the catalog after the first import of b2, run.joined the    *)
(* catalog of the single import.                                           *)
(***************************************************************************)
InitBatch ==
    /\ InitCatalog
    /\ InitElsewhere
    /\ \E b1 \in Batches, b2 \in Batches :
           /\ Len(b1) + Len(b2) <= MaxBatch + 1
           /\ run = [pc |-> "first", b1 |-> b1, b2 |-> b2,
                     once |-> EmptyCatalog, joined |-> EmptyCatalog]

ImportFirst ==
    /\ run.pc = "first"
    /\ ImportFromJson(run.b1)
    /\ run' = [run EXCEPT !.pc = "second"]

ImportSecond ==
    /\ run.pc = "second"
    /\ ImportFromJson(run.b2)
    /\ run' = [run EXCEPT !.pc = "again",
                          !.once = [songs |-> songs', tags |-> tags']]

ImportAgain ==
    /\ run.pc = "again"
    /\ ImportFromJson(run.b2)
    /\ run' = [run EXCEPT !.pc = "join"]

ImportJoined ==
    /\ run.pc = "join"
    /\ \E times \in Readings(Len(run.b1) + Len(run.b2), 0) :
           LET r == import_from_json(EmptyCatalog, run.b1 \o run.b2, times)
           IN  run' = [run EXCEPT !.pc = "done",
                                  !.joined = [songs |-> r.songs, tags |-> r.tags]]
    /\ UNCHANGED <<songs, tags, ratings, playlists, playlist_songs, seq, clock,
                   last, imported, accepted>>
    /\ UNCHANGED elsewhere

NextBatch ==
    \/ ImportFirst
    \/ ImportSecond
    \/ ImportAgain
    \/ ImportJoined

SpecBatch == InitBatch /\ [][NextBatch]_vars

(***************************************************************************)
(* The extractor (src/suno_extractor.py, SunoExtractor). A page of the     *)
(* library is the sequence of the fragments extract_all_songs scans once   *)
(* scroll_to_load_all has loaded the page; a fragment is the href of its   *)
(* song link (NoLink when it has none) and its disliked state. A site is   *)
(* the sequence of the pages of one tab; consecutive pages show different  *)
(* sets of song links, and the browser stays on the last page whatever is  *)
(* clicked there.                                                          *)
(***************************************************************************)
Https == <<"h", "t", "t", "p", "s", ":", "/", "/">> \o Host

NoLink == <<>>

HrefA == SongSeg \o Id1

\* the same link written as an absolute URL
HrefAabs == Https \o SongSeg \o Id1

\* the same song behind another URL
HrefAq == SongSeg \o Id1 \o <<"?", "r">>

HrefB == SongSeg \o Uuid("2")

HrefC == SongSeg \o Uuid("3")

Fragment(href) == [href |-> href, disliked |-> FALSE]

\* element.find('a', href=re.compile(r'/song/'))
HasLink(element) == element.href # NoLink

\* f"https://suno.com{href}" if href.startswith('/') else href
song_url(href) ==
    IF Len(href) > 0 /\ href[1] = "/" THEN Https \o href ELSE href

\* _parse_song_element on a fragment that has a song link
parse_song_element(element) ==
    [url |-> song_url(element.href), disliked |-> element.disliked,
     source_tab |-> ""]

\* the k-th smallest member of a set of numbers
Nth(S, k) == CHOOSE x \in S : Cardinality({y \in S : y < x}) = k - 1

\* the fragments that become records: parsed, and with a URL that is not in
\* extracted_urls when the loop reaches them
Emitted(page, seen) ==
    {i \in 1..Len(page) :
        /\ HasLink(page[i])
        /\ song_url(page[i].href) \notin seen
        /\ \A j \in 1..(i - 1) :
               HasLink(page[j]) => song_url(page[j].href) # song_url(page[i].href)}

\* extract_all_songs that tests extracted_urls and never adds to it
extract_all_songs_forgetting(page, seen) ==
    LET idx == {i \in 1..Len(page) :
                   HasLink(page[i]) /\ song_url(page[i].href) \notin seen}
        out == [k \in 1..Cardinality(idx) |-> parse_song_element(page[Nth(idx, k)])]
    IN  [songs |-> out, extracted_urls |-> seen]

\* extract_all_songs: the new records in page order, and extracted_urls
extract_all_songs(page, seen) ==
    LET idx == Emitted(page, seen)
        out == [k \in 1..Cardinality(idx) |-> parse_song_element(page[Nth(idx, k)])]
    IN  [songs |-> out,
         extracted_urls |-> seen \cup {out[k].url : k \in 1..Len(out)}]

\* the hrefs of a[href*='/song/'], as the browser resolves them
Links(page) == {song_url(page[i].href) : i \in {j \in 1..Len(page) : HasLink(page[j])}}

\* _click_next_page with the browser on page cur of the site. Before the
\* last page the next control is there and shows the next page. On the
\* last page env.last says what is there: no control ("none"), a control
\* that changes nothing ("dead"), or a control that changes the address
\* once and the links never ("addr").
click_next_page(env, cur, hashed) ==
    LET clicked == cur < Len(env.site) \/ env.last # "none"
        after == IF cur < Len(env.site) THEN cur + 1 ELSE cur
        moved == hashed \/ (cur = Len(env.site) /\ env.last = "addr")
    IN  IF ~clicked
        THEN [ret |-> FALSE, cur |-> cur, hashed |-> hashed]
        ELSE [ret |-> ~(moved = hashed
                        /\ Links(env.site[after]) = Links(env.site[cur])),
              cur |-> after, hashed |-> moved]

\* the while loop of _extract_all_pages_for_tab, from its test on
RECURSIVE PageLoop(_, _)
\* a loop that leaves the records of the chunk as they were parsed
leave_source_tab(chunk, tab) == chunk

\* for s in chunk: s['source_tab'] = tab
set_source_tab(chunk, tab) ==
    [i \in 1..Len(chunk) |-> [chunk[i] EXCEPT !.source_tab = tab]]

PageLoop(env, st) ==
    IF st.page_index > env.max_pages THEN st
    ELSE LET h == extract_all_songs(env.site[st.cur], st.extracted_urls)
             chunk == set_source_tab(h.songs, env.tab)
             harvested == [st EXCEPT !.visits = Append(@, st.cur),
                                     !.extracted_urls = h.extracted_urls]
         IN  IF chunk = <<>> THEN harvested
             ELSE LET c == click_next_page(env, st.cur, st.hashed)
                      gone == [harvested EXCEPT !.all_songs = @ \o chunk,
                                                !.cur = c.cur,
                                                !.hashed = c.hashed,
                                                !.clicks =
                                                    Append(@, [before |-> Links(env.site[st.cur]),
                                                               after |-> Links(env.site[c.cur]),
                                                               ret |-> c.ret])]
                  IN  IF ~c.ret THEN gone
                      ELSE IF st.extracted_urls = h.extracted_urls
                           THEN [gone EXCEPT !.page_index = @ + 1]
                           ELSE PageLoop(env, [gone EXCEPT !.page_index = @ + 1])

\* _extract_all_pages_for_tab with the browser on the first page of the tab
extract_all_pages_for_tab(env, seen) ==
    PageLoop(env, [page_index |-> 1, all_songs |-> <<>>, extracted_urls |-> seen,
                   cur |-> 1, hashed |-> FALSE, visits |-> <<>>,
                   clicks |-> <<>>])

\* pages of a tab
PageAB == <<Fragment(HrefA), Fragment(HrefB)>>

PageA == <<Fragment(HrefAabs)>>

PageAq == <<Fragment(HrefAq)>>

PageBC == <<Fragment(HrefB), Fragment(HrefC)>>

PageC == <<Fragment(HrefC), Fragment(NoLink), Fragment(HrefC)>>

PageNone == <<Fragment(NoLink)>>

Pages == {PageAB, PageA, PageAq, PageBC, PageC, PageNone}

\* the URLs of the links of the pages, and their identities
LinkUrls == UNION {Links(page) : page \in Pages}

LinkIdOf == [url \in LinkUrls |-> extract_song_id(url)]

\* sites of up to MaxPages pages: the link set changes from page to page
Sites ==
    {site \in UNION {[1..n -> Pages] : n \in 1..MaxPages} :
        \A k \in 1..(Len(site) - 1) : Links(site[k]) # Links(site[k + 1])}

\* what the last page offers for a next control
LastPages == {"none", "dead", "addr"}

\* extracted_urls at the call: empty, or left by the tab harvested before
SeenBefore == {{}, {song_url(HrefB)}}

\* the pages of one tab and the arguments of the call
Envs == [site : Sites, last : LastPages, tab : {"creations"},
         max_pages : {MaxPages - 1, MaxPages}]

InitPager ==
    /\ InitCatalog
    /\ run = Idle
    /\ OthersOff("pager")
    /\ \E env \in Envs, seen \in SeenBefore :
           pager = [pc |-> "call", env |-> env, seen |-> seen,
                    out |-> [all_songs |-> <<>>, visits |-> <<>>]]

\* one call of _extract_all_pages_for_tab, from entry to return
ExtractAllPagesForTab ==
    /\ pager.pc = "call"
    /\ pager' = [pager EXCEPT
                    !.pc = "returned",
                    !.out = extract_all_pages_for_tab(pager.env, pager.seen)]
    /\ UNCHANGED <<songs, tags, ratings, playlists, playlist_songs, seq, clock,
                   last, imported, accepted, run, playVars, scroller, conv, job, txn,
                   later>>

NextPager == ExtractAllPagesForTab

SpecPager == InitPager /\ [][NextPager]_vars

(***************************************************************************)
(* scroll_to_load_all. The page is the scrollHeight of its body, the       *)
(* scrollHeight of its largest scrollable container (0 when it has none)   *)
(* and the number of its song links. The body can grow when the 'show      *)
(* more' buttons are clicked, before the scroll script measures, and body  *)
(* and links can grow during the pause after it; the driver answers every  *)
(* query. scroller.seen is what each iteration compared: TRUE for an       *)
(* iteration that found a change. scroller.grew says that every iteration  *)
(* so far left the page higher or with more links than it found it, and    *)
(* scroller.still that none did.                                           *)
(***************************************************************************)
\* the threshold of no_change_count
StallLimit == 5

\* return document.body.scrollHeight
BodyHeight(page) == page.body

\* scroll_js: maxHeight, the larger of the body's and the container's
ScrollHeight(page) == Max({page.body, page.inner})

\* len(find_elements(By.CSS_SELECTOR, "a[href*='/song/']"))
LinkCount(page) == page.count

\* the loop goes one iteration beyond max_scrolls
WithinScrollsAndOne(scroll_count, max_scrolls) == scroll_count <= max_scrolls

\* while scroll_count < max_scrolls
WithinScrolls(scroll_count, max_scrolls) == scroll_count < max_scrolls

\* the pages scroll_to_load_all is called on
StartPages == [body : {1}, inner : {0, 2}, count : {0, 1}]

\* lines 209-216: the locals before the loop
InitScroller ==
    /\ InitCatalog
    /\ run = Idle
    /\ OthersOff("scroller")
    /\ \E page \in StartPages, max_scrolls \in 0..MaxScrolls :
           scroller = [pc |-> "loop", max_scrolls |-> max_scrolls, page |-> page,
                       last_height |-> BodyHeight(page),
                       prev_count |-> LinkCount(page),
                       no_change_count |-> 0, scroll_count |-> 0,
                       seen |-> <<>>, grew |-> TRUE, still |-> TRUE]

\* one iteration of the while loop: lines 219-243
ScrollIteration ==
    /\ scroller.pc = "loop"
    /\ WithinScrolls(scroller.scroll_count, scroller.max_scrolls)
    /\ \E more \in 0..1, dh \in 0..1, dc \in 0..1 :
           LET clicked == [scroller.page EXCEPT !.body = @ + more]
               new_height == ScrollHeight(clicked)
               paused == [clicked EXCEPT !.body = @ + dh, !.count = @ + dc]
               new_count == LinkCount(paused)
               stalled == new_height = scroller.last_height
                          /\ new_count = scroller.prev_count
               stop == stalled /\ scroller.no_change_count + 1 >= StallLimit
               watched == [scroller EXCEPT
                   !.page = paused,
                   !.seen = Append(@, ~stalled),
                   !.grew = @ /\ (ScrollHeight(paused) > ScrollHeight(scroller.page)
                                  \/ paused.count > scroller.page.count),
                   !.still = @ /\ paused = scroller.page,
                   !.no_change_count = IF stalled THEN @ + 1 ELSE 0]
           IN  scroller' = IF stop
                           THEN [watched EXCEPT !.pc = "done"]
                           ELSE [watched EXCEPT !.last_height = new_height,
                                                !.prev_count = new_count,
                                                !.scroll_count = @ + 1]
    /\ UNCHANGED <<songs, tags, ratings, playlists, playlist_songs, seq, clock,
                   last, imported, accepted, run, playVars, pager, conv, job, txn,
                   later>>

\* the loop test fails: scroll back to the top and return (lines 245-249)
ScrollReturn ==
    /\ scroller.pc = "loop"
    /\ ~WithinScrolls(scroller.scroll_count, scroller.max_scrolls)
    /\ scroller' = [scroller EXCEPT !.pc = "done"]
    /\ UNCHANGED <<songs, tags, ratings, playlists, playlist_songs, seq, clock,
                   last, imported, accepted, run, playVars, pager, conv, job, txn,
                   later>>

NextScroller ==
    \/ ScrollIteration
    \/ ScrollReturn

SpecScroller == InitScroller /\ [][NextScroller]_vars

(***************************************************************************)
(* parse_duration and format_duration (src/suno_utils.py). A duration text *)
(* is a sequence of characters; int() is computed on the characters the    *)
(* model uses: digits, the signs, the blank and a letter.                  *)
(***************************************************************************)
Digits == <<"0", "1", "2", "3", "4", "5", "6", "7", "8", "9">>

IsDigit(c) == \E d \in 1..10 : Digits[d] = c

DigitValue(c) == (CHOOSE d \in 1..10 : Digits[d] = c) - 1

\* str.strip() for the blank
Strip(text) ==
    LET solid == {i \in 1..Len(text) : text[i] # " "}
    IN  IF solid = {} THEN <<>> ELSE SubSeq(text, Min(solid), Max(solid))

\* str.split(':')
Split(text) ==
    LET colons == {i \in 1..Len(text) : text[i] = ":"}
        from(k) == IF k = 1 THEN 1 ELSE Nth(colons, k - 1) + 1
        to(k) == IF k = Cardinality(colons) + 1 THEN Len(text)
                 ELSE Nth(colons, k) - 1
    IN  [k \in 1..(Cardinality(colons) + 1) |-> SubSeq(text, from(k), to(k))]

\* the value of a sequence of digits
RECURSIVE Number(_)
Number(digits) ==
    IF digits = <<>> THEN 0
    ELSE 10 * Number(SubSeq(digits, 1, Len(digits) - 1))
         + DigitValue(digits[Len(digits)])

\* int(part): blanks around, one optional sign, then digits and nothing
\* else; ok is FALSE where int raises ValueError
ParseInt(part) ==
    LET body == Strip(part)
        signed == Len(body) > 0 /\ body[1] \in {"+", "-"}
        digits == IF signed THEN SubSeq(body, 2, Len(body)) ELSE body
        ok == Len(digits) > 0 /\ \A i \in 1..Len(digits) : IsDigit(digits[i])
    IN  [ok |-> ok,
         value |-> IF ~ok THEN 0
                   ELSE IF signed /\ body[1] = "-" THEN 0 - Number(digits)
                   ELSE Number(digits)]

\* parse_duration
parse_duration(duration_str) ==
    LET parts == Split(Strip(duration_str))
        field == [k \in 1..Len(parts) |-> ParseInt(parts[k])]
    IN  IF duration_str = <<>> THEN 0
        ELSE IF Len(parts) = 2
             THEN IF field[1].ok /\ field[2].ok
                  THEN field[1].value * 60 + field[2].value
                  ELSE 0
        ELSE IF Len(parts) = 3
             THEN IF field[1].ok /\ field[2].ok /\ field[3].ok
                  THEN field[1].value * 3600 + field[2].value * 60 + field[3].value
                  ELSE 0
        ELSE 0

\* str(n) for n >= 0
RECURSIVE Decimal(_)
Decimal(n) ==
    IF n < 10 THEN <<Digits[n + 1]>>
    ELSE Append(Decimal(n \div 10), Digits[(n % 10) + 1])

\* f"{n:02d}" for n >= 0
TwoDigits(n) == IF n < 10 THEN <<"0">> \o Decimal(n) ELSE Decimal(n)

\* format_duration
format_duration(seconds) ==
    LET nonneg == IF seconds < 0 THEN 0 ELSE seconds
        hours == nonneg \div 3600
        minutes == (nonneg % 3600) \div 60
        secs == nonneg % 60
    IN  IF hours > 0
        THEN Decimal(hours) \o <<":">> \o TwoDigits(minutes) \o <<":">> \o TwoDigits(secs)
        ELSE Decimal(minutes) \o <<":">> \o TwoDigits(secs)

\* the characters of the texts tried exhaustively
TextChars == {"0", "1", "5", ":", "-", " ", "a"}

\* the texts of the tests
Text324 == <<"3", ":", "2", "4">>

Text10530 == <<"1", ":", "0", "5", ":", "3", "0">>

Text030 == <<"0", ":", "3", "0">>

TestTexts ==
    { Text324, Text10530, Text030,
      <<"1", "0", ":", "0", "0">>, <<"5", "9", ":", "5", "9">>,
      <<"2", ":", "3", "0", ":", "1", "5">>,
      <<"i", "n", "v", "a", "l", "i", "d">>,
      <<"a", "b", "c", ":", "d", "e", "f">>,
      <<"1", ":", "2", ":", "3", ":", "4">>,
      <<" ", " ", "3", ":", "2", "4", " ", " ">> }

\* fields of durations that are and are not in range
FirstFields == {<<"0">>, <<"3">>, <<"0", "3">>, <<"7", "5">>, <<"1", "0", "0">>}

TwoDigitFields == {<<"0", "0">>, <<"0", "5">>, <<"5", "9">>, <<"6", "0">>, <<"9", "9">>}

FieldTexts ==
    {m \o <<":">> \o ss : m \in FirstFields, ss \in TwoDigitFields}
    \cup {h \o <<":">> \o mm \o <<":">> \o ss :
             h \in FirstFields, mm \in TwoDigitFields, ss \in TwoDigitFields}

\* every text of up to MaxText characters, and the longer ones above
Texts ==
    UNION {[1..n -> TextChars] : n \in 0..MaxText} \cup TestTexts \cup FieldTexts

\* every number of seconds up to MaxSeconds, and the larger ones of the tests
SecondsArgs == 0..MaxSeconds \cup {3930, 7261, 9015, 360000}

InitConv ==
    /\ InitCatalog
    /\ run = Idle
    /\ OthersOff("conv")
    /\ \/ \E n \in SecondsArgs : conv = [pc |-> "seconds", n |-> n]
       \/ \E text \in Texts : conv = [pc |-> "text", s |-> text]

\* parse_duration(format_duration(n))
FormatThenParse ==
    /\ conv.pc = "seconds"
    /\ conv' = [pc |-> "formatted", n |-> conv.n,
                text |-> format_duration(conv.n),
                back |-> parse_duration(format_duration(conv.n))]
    /\ UNCHANGED <<songs, tags, ratings, playlists, playlist_songs, seq, clock,
                   last, imported, accepted, run, playVars, pager, scroller, job, txn,
                   later>>

\* format_duration(parse_duration(s))
ParseThenFormat ==
    /\ conv.pc = "text"
    /\ conv' = [pc |-> "parsed", s |-> conv.s,
                secs |-> parse_duration(conv.s),
                text |-> format_duration(parse_duration(conv.s))]
    /\ UNCHANGED <<songs, tags, ratings, playlists, playlist_songs, seq, clock,
                   last, imported, accepted, run, playVars, pager, scroller, job, txn,
                   later>>

NextConv ==
    \/ FormatThenParse
    \/ ParseThenFormat

SpecConv == InitConv /\ [][NextConv]_vars

(***************************************************************************)
(* run_extraction. The call is followed statement by statement: the tabs   *)
(* in turn (navigate_to_tab, then _extract_all_pages_for_tab), the test    *)
(* for an empty harvest, the disliked filter, extract_detailed_info record *)
(* by record, and the three saves. At each statement that talks to the     *)
(* browser or to the file system the environment may raise. An exception   *)
(* is its class, the phase it was raised in and its __cause__.             *)
(***************************************************************************)
\* a fragment the heuristics of _parse_song_element find disliked
Disliked(href) == [href |-> href, disliked |-> TRUE]

PageMixed == <<Fragment(HrefA), Disliked(HrefB)>>

PageDisliked == <<Disliked(HrefC)>>

\* the pages behind each tab; the view of the fallback branch is the first
\* page of the creations tab
TabSites ==
    [creations : {<<PageMixed>>, <<PageDisliked>>, <<PageNone>>,
                  <<PageA, PageDisliked>>},
     likes : {<<PageBC>>, <<PageMixed>>}]

\* max_pages of _extract_all_pages_for_tab as run_extraction calls it
DefaultMaxPages == 50

NoException == [type |-> "none"]

Raised(type, at) == [type |-> type, at |-> at, cause |-> NoException]

\* KeyboardInterrupt derives from BaseException only; the others from Exception
ExceptionTypes == {"ExtractionError", "WebDriverException", "OSError",
                   "KeyboardInterrupt"}

IsException(exc) == exc.type \in ExceptionTypes \ {"KeyboardInterrupt"}

\* what the statement of a phase may do: complete, or raise
Faults(at) == {NoException} \cup {Raised(type, at) : type \in ExceptionTypes}

\* the arguments of run_extraction: tabs = None is ['creations'], save_formats
\* = None is ['md', 'json']; save_formats is only tested for membership
TabsArgs == {<<"creations">>, <<"creations", "likes">>, <<>>}

SaveFormatsArgs == {{"md", "json"}, {"json"}, {"markdown", "csv"}, {}}

\* except clauses that log what is not an ExtractionError and return
run_extraction_swallowing(exc) ==
    IF exc.type = "ExtractionError"
    THEN [pc |-> "raised", raised |-> exc]
    ELSE IF IsException(exc)
    THEN [pc |-> "returned", raised |-> NoException]
    ELSE [pc |-> "raised", raised |-> exc]

\* the except clauses of run_extraction: how the call ends when exc leaves
\* the try block
run_extraction_except(exc) ==
    IF exc.type = "ExtractionError"
    THEN [pc |-> "raised", raised |-> exc]
    ELSE IF IsException(exc)
    THEN [pc |-> "raised",
          raised |-> [type |-> "ExtractionError", at |-> exc.at, cause |-> exc]]
    ELSE [pc |-> "raised", raised |-> exc]

\* a filter that keeps every record
keep_disliked(songs_list) == songs_list

\* songs = [s for s in songs if not s.get('disliked')]
filter_disliked(songs_list) ==
    LET Kept(s) == ~s.disliked IN SelectSeq(songs_list, Kept)

\* the key of output_files a format is saved under
OutputKey(fmt) == IF fmt = "md" THEN "markdown" ELSE fmt

\* the test of save_formats that guards the save of a format
Requested(fmt, save_formats) ==
    IF fmt = "md" THEN "md" \in save_formats \/ "markdown" \in save_formats
    ELSE fmt \in save_formats

\* the statement after the save of a format
AfterSave(fmt) ==
    IF fmt = "md" THEN "json" ELSE IF fmt = "json" THEN "csv" ELSE "returned"

InitJob ==
    /\ InitCatalog
    /\ run = Idle
    /\ OthersOff("job")
    /\ \E extract_details \in BOOLEAN, save_formats \in SaveFormatsArgs,
          tabs \in TabsArgs, exclude_disliked \in BOOLEAN, sites \in TabSites :
           job = [pc |-> "harvest",
                  extract_details |-> extract_details,
                  save_formats |-> save_formats,
                  tabs |-> tabs,
                  exclude_disliked |-> exclude_disliked,
                  sites |-> sites,
                  extracted_urls |-> {},
                  tab_index |-> 1,
                  songs |-> <<>>,
                  harvested |-> <<>>,
                  chunks |-> <<>>,
                  idx |-> 1,
                  visited |-> <<>>,
                  skipped |-> <<>>,
                  output_files |-> <<>>,
                  fault |-> NoException,
                  raised |-> NoException]

\* exc leaves the try block: the except clauses end the call
Leave(exc) ==
    LET end == run_extraction_except(exc)
    IN  job' = [job EXCEPT !.pc = end.pc, !.fault = exc, !.raised = end.raised]

\* the harvest is over: return the empty map when it found nothing
Harvested(j) ==
    IF j.songs = <<>> THEN [j EXCEPT !.pc = "returned"]
    ELSE [j EXCEPT !.pc = "filter", !.harvested = j.songs]

\* one turn of the loop over tabs
RunTab ==
    /\ job.pc = "harvest"
    /\ job.tabs # <<>>
    /\ \E exc \in Faults("navigation") \cup Faults("harvesting") :
           IF exc # NoException THEN Leave(exc)
           ELSE LET tab == job.tabs[job.tab_index]
                    env == [site |-> job.sites[tab], last |-> "none",
                            tab |-> tab, max_pages |-> DefaultMaxPages]
                    out == extract_all_pages_for_tab(env, job.extracted_urls)
                    more == [job EXCEPT !.songs = @ \o out.all_songs,
                                        !.chunks =
                                            Append(@, [tab |-> tab,
                                                       songs |-> out.all_songs]),
                                        !.extracted_urls = out.extracted_urls,
                                        !.tab_index = @ + 1]
                IN  job' = IF job.tab_index < Len(job.tabs) THEN more
                           ELSE Harvested(more)
    /\ UNCHANGED <<songs, tags, ratings, playlists, playlist_songs, seq, clock,
                   last, imported, accepted, run, playVars, pager, scroller,
                   conv, txn,
                   later>>

\* the branch of an empty tabs list: the current /me view
RunCurrentView ==
    /\ job.pc = "harvest"
    /\ job.tabs = <<>>
    /\ \E exc \in Faults("navigation") \cup Faults("harvesting") :
           IF exc # NoException THEN Leave(exc)
           ELSE LET out == extract_all_songs(job.sites.creations[1],
                                             job.extracted_urls)
                IN  job' = Harvested([job EXCEPT
                                         !.songs = out.songs,
                                         !.extracted_urls = out.extracted_urls])
    /\ UNCHANGED <<songs, tags, ratings, playlists, playlist_songs, seq, clock,
                   last, imported, accepted, run, playVars, pager, scroller,
                   conv, txn,
                   later>>

\* the disliked filter, and the test of extract_details
RunFilter ==
    /\ job.pc = "filter"
    /\ LET kept == IF job.exclude_disliked THEN filter_disliked(job.songs)
                   ELSE job.songs
       IN  job' = [job EXCEPT
                      !.songs = kept,
                      !.pc = IF job.extract_details /\ kept # <<>>
                             THEN "enrich" ELSE "md"]
    /\ UNCHANGED <<songs, tags, ratings, playlists, playlist_songs, seq, clock,
                   last, imported, accepted, run, playVars, pager, scroller,
                   conv, txn,
                   later>>

\* one turn of the loop of extract_detailed_info: the record is visited, and
\* an Exception of the visit is logged and the record left as it was
RunEnrich ==
    /\ job.pc = "enrich"
    /\ \E exc \in Faults("enrichment") :
           LET visit == [job EXCEPT
                            !.visited = Append(@, job.songs[job.idx]),
                            !.idx = @ + 1,
                            !.pc = IF job.idx < Len(job.songs) THEN "enrich"
                                   ELSE "md"]
           IN  IF exc = NoException THEN job' = visit
               ELSE IF IsException(exc)
               THEN job' = [visit EXCEPT !.skipped = Append(@, job.idx)]
               ELSE Leave(exc)
    /\ UNCHANGED <<songs, tags, ratings, playlists, playlist_songs, seq, clock,
                   last, imported, accepted, run, playVars, pager, scroller,
                   conv, txn,
                   later>>

\* the save of one format, when save_formats asks for it
RunSave(fmt) ==
    /\ job.pc = fmt
    /\ IF ~Requested(fmt, job.save_formats)
       THEN job' = [job EXCEPT !.pc = AfterSave(fmt)]
       ELSE \E exc \in Faults("saving") :
                IF exc # NoException THEN Leave(exc)
                ELSE job' = [job EXCEPT
                                !.output_files =
                                    Append(@, [format |-> OutputKey(fmt),
                                               songs |-> job.songs]),
                                !.pc = AfterSave(fmt)]
    /\ UNCHANGED <<songs, tags, ratings, playlists, playlist_songs, seq, clock,
                   last, imported, accepted, run, playVars, pager, scroller,
                   conv, txn,
                   later>>

NextRun ==
    \/ RunTab
    \/ RunCurrentView
    \/ RunFilter
    \/ RunEnrich
    \/ \E fmt \in {"md", "json", "csv"} : RunSave(fmt)

SpecRun == InitJob /\ [][NextRun]_vars

(***************************************************************************)
(* An import that can be cut short. import_from_json is followed record by *)
(* record and add_song statement by statement. songs and tags are the      *)
(* database file, which is what any other connection reads and what is     *)
(* left when the process stops; txn.work is the same tables as the         *)
(* connection of add_song sees them, with the writes of its open           *)
(* transaction. sqlite3.connect is called with the default isolation       *)
(* level, so the first INSERT opens a transaction that only conn.commit()  *)
(* ends; conn.close() and the recovery after a crash roll it back.         *)
(***************************************************************************)
\* a connection that commits every statement as it executes it
in_autocommit(file, work) == work

\* the database file after a statement of an open transaction: unchanged
in_transaction(file, work) == file

\* a record with version tags and an empty tag among its tags
SongVersions == [url |-> U1q, title |-> "t1",
                 tags |-> <<<<"V", "5">>, <<>>, TagA, <<"v", "4">>>>]

CrashBatches == CountedBatches \cup {<<SongGood, SongVersions>>}

\* where the import can be cut short
CutPoints == {"loop", "connected", "tags", "commit"}

InitCrash ==
    /\ InitCatalog
    /\ run = Idle
    /\ OthersOff("txn")
    /\ \E batch \in CrashBatches :
           txn = [pc |-> "loop", batch |-> batch, i |-> 1, count |-> 0,
                  work |-> EmptyCatalog, k |-> 1, now |-> 0, times |-> <<>>,
                  swallowed |-> FALSE, cut |-> "none"]

\* the test of the loop of import_from_json, and add_song up to its
\* connection: a record without identity is passed over before any
\* connection is made
ImportNext ==
    /\ txn.pc = "loop"
    /\ txn' = IF txn.i > Len(txn.batch)
              THEN [txn EXCEPT !.pc = "returned"]
              ELSE IF SongIdOf[txn.batch[txn.i].url] = NULL
              THEN [txn EXCEPT !.i = @ + 1, !.times = Append(@, clock)]
              ELSE [txn EXCEPT !.pc = "connected", !.work = Catalog]
    /\ UNCHANGED <<songs, tags, ratings, playlists, playlist_songs, seq, clock,
                   last, imported, accepted, run, playVars, pager, scroller,
                   conv, job,
                   later>>

\* INSERT OR REPLACE INTO songs
InsertSongRow ==
    /\ txn.pc = "connected"
    /\ \E now \in clock..MaxClock :
           LET song == txn.batch[txn.i]
               work == [txn.work EXCEPT
                           !.songs = InsertOrReplaceSong(
                                         @, SongRow(SongIdOf[song.url], song, now))]
               file == in_transaction(Catalog, work)
           IN  /\ txn' = [txn EXCEPT
                             !.pc = IF song.tags = <<>> THEN "commit" ELSE "tags",
                             !.work = work, !.k = 1, !.now = now]
               /\ songs' = file.songs
               /\ tags' = file.tags
               /\ clock' = now
    /\ UNCHANGED <<ratings, playlists, playlist_songs, seq, last, imported,
                   accepted, run, playVars, pager, scroller, conv, job,
                   later>>

\* one turn of the loop over the tags: INSERT OR IGNORE INTO tags for a tag
\* that is neither empty nor a version tag; an Exception of the statement
\* is passed over
InsertTag ==
    /\ txn.pc = "tags"
    /\ \E raises \in BOOLEAN :
           LET song == txn.batch[txn.i]
               tag == song.tags[txn.k]
               inserts == tag # <<>> /\ ~IsVersionTag(tag)
               work == IF inserts /\ ~raises
                       THEN [txn.work EXCEPT
                                !.tags = InsertOrIgnoreTag(
                                             @, [song_id |-> SongIdOf[song.url],
                                                 tag |-> tag])]
                       ELSE txn.work
               file == in_transaction(Catalog, work)
           IN  /\ raises => inserts
               /\ txn' = [txn EXCEPT
                             !.pc = IF txn.k < Len(song.tags) THEN "tags"
                                    ELSE "commit",
                             !.work = work, !.k = @ + 1,
                             !.swallowed = @ \/ raises]
               /\ songs' = file.songs
               /\ tags' = file.tags
    /\ UNCHANGED <<ratings, playlists, playlist_songs, seq, clock, last,
                   imported, accepted, run, playVars, pager, scroller, conv,
                   job,
                   later>>

\* conn.commit(), return True, and count += 1 in import_from_json
Commit ==
    /\ txn.pc = "commit"
    /\ LET song == txn.batch[txn.i]
       IN  /\ songs' = txn.work.songs
           /\ tags' = txn.work.tags
           /\ txn' = [txn EXCEPT !.pc = "loop", !.i = @ + 1, !.count = @ + 1,
                                 !.times = Append(@, txn.now)]
           /\ imported' = imported \cup {SongIdOf[song.url]}
           /\ last' = [op |-> "add_song", song |-> song, ret |-> TRUE]
    /\ UNCHANGED <<ratings, playlists, playlist_songs, seq, clock, accepted,
                   run, playVars, pager, scroller, conv, job,
                   later>>

\* KeyboardInterrupt (conn.close() in the finally clause of _get_connection)
\* or the end of the process: the open transaction is rolled back
Interrupt ==
    /\ txn.pc \in CutPoints
    /\ txn' = [txn EXCEPT !.pc = "interrupted", !.cut = txn.pc,
                          !.work = Catalog]
    /\ UNCHANGED <<songs, tags, ratings, playlists, playlist_songs, seq, clock,
                   last, imported, accepted, run, playVars, pager, scroller,
                   conv, job,
                   later>>

NextCrash ==
    \/ ImportNext
    \/ InsertSongRow
    \/ InsertTag
    \/ Commit
    \/ Interrupt

SpecCrash == InitCrash /\ [][NextCrash]_vars

(***************************************************************************)
(* One SunoExtractor over its lifetime: extracted_urls starts empty        *)
(* (__init__) and only extract_all_songs adds to it. Between two calls the *)
(* browser may show another page. harvest.returned is the list of what     *)
(* each call returned, with whether the page had changed since the call    *)
(* before it.                                                              *)
(***************************************************************************)
InitHarvest ==
    /\ InitCatalog
    /\ run = Idle
    /\ OthersOff("harvest")
    /\ \E page \in Pages :
           harvest = [pc |-> "on", page |-> page, extracted_urls |-> {},
                      returned |-> <<>>, changed |-> TRUE]

\* one call of extract_all_songs on the page the browser shows
ExtractAllSongs ==
    /\ harvest.pc = "on"
    /\ Len(harvest.returned) < MaxCalls
    /\ LET out == extract_all_songs(harvest.page, harvest.extracted_urls)
       IN  harvest' = [harvest EXCEPT
                          !.extracted_urls = out.extracted_urls,
                          !.returned = Append(@, [songs |-> out.songs,
                                                  changed |-> harvest.changed]),
                          !.changed = FALSE]
    /\ UNCHANGED <<songs, tags, ratings, playlists, playlist_songs, seq, clock,
                   last, imported, accepted, run, playVars, pager, scroller,
                   conv, job, txn, detail, parsed, procs>>

\* the browser shows another page (a scroll loaded rows, a tab was opened)
PageChanges ==
    /\ harvest.pc = "on"
    /\ \E page \in Pages \ {harvest.page} :
           harvest' = [harvest EXCEPT !.page = page, !.changed = TRUE]
    /\ UNCHANGED <<songs, tags, ratings, playlists, playlist_songs, seq, clock,
                   last, imported, accepted, run, playVars, pager, scroller,
                   conv, job, txn, detail, parsed, procs>>

NextHarvest ==
    \/ ExtractAllSongs
    \/ PageChanges

SpecHarvest == InitHarvest /\ [][NextHarvest]_vars

(***************************************************************************)
(* extract_detailed_info. A text is its length, whether its first hundred  *)
(* characters hold the word Home or Create ("home") or the word Library    *)
(* ("library"), and whether it holds a section marker such as [Verse. A    *)
(* detail page is what the selectors of the three lyrics strategies, of    *)
(* the description and of the tags find on it, each in document order,     *)
(* and where the visit raises, if it does. A record is its url, lyrics,    *)
(* description and tags.                                                   *)
(***************************************************************************)
Txt(n) == [chars |-> n, nav |-> "none", marked |-> FALSE]

NoText == Txt(0)

\* the bounds of a plausible lyrics text in strategies 2 and 3
MinLyrics == 50

MaxLyrics == 5000

\* the first of the longest texts of a list that pass a test
Longest(texts, Ok(_)) ==
    LET ok == {i \in 1..Len(texts) : Ok(texts[i])}
    IN  IF ok = {} THEN NoText
        ELSE texts[Min({i \in ok : \A j \in ok : texts[j].chars <= texts[i].chars})]

\* the first of the shortest texts of a list that pass a test
Shortest(texts, Ok(_)) ==
    LET ok == {i \in 1..Len(texts) : Ok(texts[i])}
    IN  IF ok = {} THEN NoText
        ELSE texts[Min({i \in ok : \A j \in ok : texts[i].chars <= texts[j].chars})]

\* strategy 1: the elements with a lyrics class or attribute
ClassedLyrics(page) ==
    LET Ok(t) == t.chars > MinLyrics /\ t.nav # "home"
    IN  Longest(page.classed, Ok)

\* strategy 2: the smallest block with section markers
MarkedLyrics(page) ==
    LET Ok(t) == /\ t.marked
                 /\ MinLyrics < t.chars /\ t.chars < MaxLyrics
                 /\ t.nav = "none"
    IN  Shortest(page.blocks, Ok)

\* strategy 3: the elements styled white-space: pre
PreLyrics(page) ==
    LET Ok(t) == /\ MinLyrics < t.chars /\ t.chars < MaxLyrics
                 /\ t.nav # "home"
    IN  Longest(page.pre, Ok)

\* lyrics_text after the three strategies
lyrics_text(page) ==
    IF ClassedLyrics(page) # NoText THEN ClassedLyrics(page)
    ELSE IF MarkedLyrics(page) # NoText THEN MarkedLyrics(page)
    ELSE PreLyrics(page)

\* if lyrics_text: song['lyrics'] = lyrics_text
found_lyrics(song, page) ==
    IF lyrics_text(page).chars > 0 THEN lyrics_text(page) ELSE song.lyrics

\* the loop over desc_selectors: the first text longer than the description
found_description(song, page) ==
    LET longer == {i \in 1..Len(page.desc) :
                      page.desc[i].chars > song.description.chars}
    IN  IF longer = {} THEN song.description ELSE page.desc[Min(longer)]

Range(s) == {s[i] : i \in 1..Len(s)}

\* the lists list(set(...)) can return for a set
Orders(S) == {s \in [1..Cardinality(S) -> S] : Range(s) = S}

\* tags that are those of the detail page alone
replaced_tags(song, page) == Range(page.tags)

\* set(song['tags'] + new_tags), when the page has tag elements
found_tags(song, page) == Range(song.tags) \cup Range(page.tags)

\* what the visit of one record leaves of it when nothing raises; order is
\* the order list(set(...)) gives the tags
enriched(song, page, order) ==
    [song EXCEPT !.lyrics = found_lyrics(song, page),
                 !.description = found_description(song, page),
                 !.tags = IF page.tags = <<>> THEN @ ELSE order]

\* the except clause that lets the failure of a record end the call
reraise(d) == [d EXCEPT !.pc = "raised"]

\* except Exception as e: logger.error(...); continue
log_and_continue(d) == [d EXCEPT !.idx = @ + 1]

BarePage == [classed |-> <<>>, blocks |-> <<>>, pre |-> <<>>, desc |-> <<>>,
             tags |-> <<>>, raises |-> "never"]

Verse(n) == [Txt(n) EXCEPT !.marked = TRUE]

\* detail pages: nothing to find; a short lyrics element; a lyrics element
\* that is navigation text over blocks with markers; texts too short and a
\* pre element; descriptions and tags
DetailPages ==
    { BarePage,
      [BarePage EXCEPT !.classed = <<Txt(60), Txt(40)>>,
                       !.desc = <<Txt(5), Txt(30), Txt(80)>>,
                       !.tags = <<"pop", "live">>],
      [BarePage EXCEPT !.classed = <<[Txt(90) EXCEPT !.nav = "home"]>>,
                       !.blocks = <<Verse(300), Verse(120),
                                    [Verse(70) EXCEPT !.nav = "library"]>>,
                       !.pre = <<Txt(400)>>,
                       !.tags = <<"rock">>],
      [BarePage EXCEPT !.classed = <<Txt(50)>>,
                       !.blocks = <<Verse(5000)>>,
                       !.pre = <<Txt(70), Txt(4000)>>,
                       !.desc = <<Txt(10)>>] }

\* where the visit of a record raises: nowhere, in driver.get, or in the
\* metadata loop after lyrics and description were assigned
RaisePoints == {"never", "get", "meta"}

Visits == {[page EXCEPT !.raises = r] : page \in DetailPages, r \in RaisePoints}

\* records as the list harvest leaves them, and one that has lyrics
DetailSongs ==
    { [url |-> "s1", lyrics |-> NoText, description |-> NoText, tags |-> <<>>],
      [url |-> "s2", lyrics |-> NoText, description |-> Txt(30),
       tags |-> <<"pop", "pop">>],
      [url |-> "s3", lyrics |-> Txt(200), description |-> Txt(100),
       tags |-> <<"jazz">>] }

\* the lists of the calls, with the page each record's url leads to
DetailCalls ==
    UNION {[1..n -> [song : DetailSongs, visit : Visits]] : n \in 0..2}

InitDetail ==
    /\ InitCatalog
    /\ run = Idle
    /\ OthersOff("detail")
    /\ \E call \in DetailCalls :
           detail = [pc |-> "loop",
                     visits |-> [i \in 1..Len(call) |-> call[i].visit],
                     before |-> [i \in 1..Len(call) |-> call[i].song],
                     songs |-> [i \in 1..Len(call) |-> call[i].song],
                     idx |-> 1, visited |-> <<>>, failed |-> {}]

\* one turn of the loop of extract_detailed_info
EnrichRecord ==
    /\ detail.pc = "loop"
    /\ detail.idx <= Len(detail.songs)
    /\ LET i == detail.idx
           song == detail.songs[i]
           page == detail.visits[i]
           seen == [detail EXCEPT !.visited = Append(@, i)]
       IN  \E order \in Orders(found_tags(song, page)) :
               LET full == enriched(song, page, order)
               IN  detail' =
                       IF page.raises = "never"
                       THEN [seen EXCEPT !.songs[i] = full, !.idx = @ + 1]
                       ELSE IF page.raises = "get"
                       THEN log_and_continue([seen EXCEPT !.failed = @ \cup {i}])
                       ELSE log_and_continue(
                                [seen EXCEPT
                                    !.songs[i] = [full EXCEPT !.tags = song.tags],
                                    !.failed = @ \cup {i}])
    /\ UNCHANGED <<songs, tags, ratings, playlists, playlist_songs, seq, clock,
                   last, imported, accepted, run, playVars, pager, scroller,
                   conv, job, txn, harvest, parsed, procs>>

\* return songs
DetailReturn ==
    /\ detail.pc = "loop"
    /\ detail.idx > Len(detail.songs)
    /\ detail' = [detail EXCEPT !.pc = "returned"]
    /\ UNCHANGED <<songs, tags, ratings, playlists, playlist_songs, seq, clock,
                   last, imported, accepted, run, playVars, pager, scroller,
                   conv, job, txn, harvest, parsed, procs>>

NextDetail ==
    \/ EnrichRecord
    \/ DetailReturn

SpecDetail == InitDetail /\ [][NextDetail]_vars

(***************************************************************************)
(* add_song on records whose tags start with v: version markers as Suno    *)
(* writes them (v4, V3.5) and a style that merely starts with the letter.  *)
(***************************************************************************)
TagV4 == <<"v", "4">>

TagV35 == <<"V", "3", ".", "5">>

TagVocal == <<"v", "o", "c", "a", "l">>

VersionTagLists == {<<TagA, TagV4, TagV35>>, <<TagVocal, TagV4>>,
                    <<TagB, <<>>, TagV35>>, <<TagC>>, <<>>}

VersionSongs == [url : {U1, UHex}, title : {"t1"}, tags : VersionTagLists]

NextTags == \E song \in VersionSongs : AddSong(song)

SpecTags == Init /\ [][NextTags]_vars

(***************************************************************************)
(* _parse_song_element on a fragment with tag elements. tag_texts are the  *)
(* texts, stripped, of the elements of the fragment whose class matches    *)
(* tag|genre|style, in document order; a wrapper and the element inside it *)
(* both match and have the same text.                                      *)
(***************************************************************************)
\* return None
None == [ret |-> "None"]

\* song_data['tags']: the texts that are not empty, one per element
parse_tags(element) ==
    LET Filled(text) == text # "" IN SelectSeq(element.tag_texts, Filled)

TagTexts == {"pop", "rock", ""}

TaggedFragments ==
    [href : {NoLink, HrefA, HrefAabs, HrefB}, disliked : {FALSE},
     tag_texts : UNION {[1..n -> TagTexts] : n \in 0..MaxTagElements}]

InitParse ==
    /\ InitCatalog
    /\ run = Idle
    /\ OthersOff("parsed")
    /\ \E element \in TaggedFragments :
           parsed = [pc |-> "call", element |-> element, out |-> None]

\* one call of _parse_song_element
ParseSongElement ==
    /\ parsed.pc = "call"
    /\ parsed' = [parsed EXCEPT
                     !.pc = "returned",
                     !.out = IF ~HasLink(parsed.element) THEN None
                             ELSE [ret |-> "record",
                                   url |-> parse_song_element(parsed.element).url,
                                   tags |-> parse_tags(parsed.element)]]
    /\ UNCHANGED <<songs, tags, ratings, playlists, playlist_songs, seq, clock,
                   last, imported, accepted, run, playVars, pager, scroller,
                   conv, job, txn, harvest, detail, procs>>

NextParse == ParseSongElement

SpecParse == InitParse /\ [][NextParse]_vars

(***************************************************************************)
(* update_audio_info. The arguments are kept as their text: "None" is the  *)
(* default None, "" the empty string, "0" the number zero. A column the     *)
(* call does not name keeps its value; the UPDATE touches the row of the   *)
(* identity and no other, and no row when the identity has none.           *)
(***************************************************************************)
\* bool(v) of an argument
Truthy(v) == v \notin {"None", "", "0"}

\* the row after UPDATE songs SET ... with the assignments the call collects
audio_columns(row, a, now) ==
    [row EXCEPT
        !.local_audio_path = IF Truthy(a.audio_path) THEN a.audio_path ELSE @,
        !.downloaded_at = IF Truthy(a.audio_path) THEN now ELSE @,
        !.local_cover_path = IF Truthy(a.cover_path) THEN a.cover_path ELSE @,
        !.bpm = IF a.bpm # "None" THEN a.bpm ELSE @,
        !.musical_key = IF Truthy(a.key) THEN a.key ELSE @,
        !.waveform_path = IF Truthy(a.waveform_path) THEN a.waveform_path ELSE @,
        !.file_size = IF Truthy(a.file_size) THEN a.file_size ELSE @,
        !.audio_format = IF Truthy(a.audio_format) THEN a.audio_format ELSE @]

update_audio_info(tbl, song_id, a, now) ==
    {IF r.id = song_id THEN audio_columns(r, a, now) ELSE r : r \in tbl}

NoAudioArgs ==
    [audio_path |-> "None", cover_path |-> "None", bpm |-> "None",
     key |-> "None", waveform_path |-> "None", file_size |-> "None",
     audio_format |-> "None"]

\* the calls: no argument, the analysis of suno_web, a download, every
\* argument, and arguments that are falsy without being None
AudioArgs ==
    { NoAudioArgs,
      [NoAudioArgs EXCEPT !.bpm = "120", !.key = "Am"],
      [NoAudioArgs EXCEPT !.audio_path = "a.mp3", !.file_size = "1024",
                          !.audio_format = "mp3"],
      [audio_path |-> "b.mp3", cover_path |-> "c.jpg", bpm |-> "90",
       key |-> "C", waveform_path |-> "w.png", file_size |-> "2048",
       audio_format |-> "wav"],
      [NoAudioArgs EXCEPT !.audio_path = "", !.bpm = "0", !.file_size = "0"] }

UpdateAudioInfo(song_id, a) ==
    \E now \in clock..MaxClock :
        /\ songs' = update_audio_info(songs, song_id, a, now)
        /\ clock' = now
        /\ last' = [op |-> "update_audio_info", song_id |-> song_id]
        /\ UNCHANGED <<tags, ratings, playlists, playlist_songs, seq, imported,
                       accepted, run>>
        /\ UNCHANGED elsewhere

NextAudio ==
    \/ \E song \in PlaySongs : AddSong(song)
    \/ \E song_id \in RatedIds, a \in AudioArgs : UpdateAudioInfo(song_id, a)

SpecAudio == Init /\ [][NextAudio]_vars

(***************************************************************************)
(* Two add_to_playlist calls at once. Each call opens its own connection   *)
(* (_get_connection) and runs three statements: the SELECT of the maximum  *)
(* position, the INSERT, and the commit. The SELECT runs outside any       *)
(* transaction and sees the committed table. The INSERT opens the          *)
(* transaction and takes the write lock of the database file; a row is     *)
(* seen by the other connection once it is committed. An INSERT that finds *)
(* the lock held waits, and raises OperationalError when the timeout of    *)
(* sqlite3.connect runs out first.                                          *)
(***************************************************************************)
\* the two request handlers
Handlers == {1, 2}

NoWriter == 0

\* a call that has not run its first statement
Called(song_id) ==
    [pc |-> "select", song_id |-> song_id, position |-> 0, ret |-> "none"]

\* position = (row['max_pos'] or 0) + 1
select_max(call, tbl, playlist_id) ==
    [call EXCEPT !.pc = "insert", !.position = NextPosition(tbl, playlist_id)]

\* the row the INSERT of a call writes
EntryOf(call, playlist_id) ==
    [playlist_id |-> playlist_id, song_id |-> call.song_id,
     position |-> call.position]

InitRace ==
    /\ InitCatalog
    /\ run = Idle
    /\ OthersOff("procs")
    /\ procs = [pc |-> "idle"]

\* the calls made one at a time before the two handlers meet
RaceSetup ==
    /\ procs.pc = "idle"
    /\ \/ \E name \in Names : CreatePlaylist(name)
       \/ \E playlist_id \in PlaylistIds, song_id \in SongIds :
              AddToPlaylist(playlist_id, song_id)

\* two handlers call add_to_playlist for the same playlist
RaceStart(playlist_id, a, b) ==
    /\ procs.pc = "idle"
    /\ a # b
    /\ Cardinality(playlist_songs) + 2 <= MaxEntries
    /\ procs' = [pc |-> "on", playlist_id |-> playlist_id,
                 before |-> playlist_songs, writer |-> NoWriter,
                 call |-> [h \in Handlers |-> Called(IF h = 1 THEN a ELSE b)]]
    /\ UNCHANGED <<songs, tags, ratings, playlists, playlist_songs, seq, clock,
                   last, imported, accepted, run, playVars, pager, scroller,
                   conv, job, txn, harvest, detail, parsed>>

RaceSelect(h) ==
    /\ procs.pc = "on"
    /\ procs.call[h].pc = "select"
    /\ procs' = [procs EXCEPT
                    !.call[h] = select_max(@, playlist_songs, procs.playlist_id)]
    /\ UNCHANGED <<songs, tags, ratings, playlists, playlist_songs, seq, clock,
                   last, imported, accepted, run, playVars, pager, scroller,
                   conv, job, txn, harvest, detail, parsed>>

\* the INSERT: IntegrityError on the pair, or the row waits for the commit
RaceInsert(h) ==
    /\ procs.pc = "on"
    /\ procs.call[h].pc = "insert"
    /\ procs.writer = NoWriter
    /\ procs' = IF PairConflict(playlist_songs,
                                EntryOf(procs.call[h], procs.playlist_id))
                THEN [procs EXCEPT !.call[h].pc = "done",
                                   !.call[h].ret = "False"]
                ELSE [procs EXCEPT !.call[h].pc = "commit", !.writer = h]
    /\ UNCHANGED <<songs, tags, ratings, playlists, playlist_songs, seq, clock,
                   last, imported, accepted, run, playVars, pager, scroller,
                   conv, job, txn, harvest, detail, parsed>>

\* the INSERT found the database locked until the timeout
RaceLocked(h) ==
    /\ procs.pc = "on"
    /\ procs.call[h].pc = "insert"
    /\ procs.writer \notin {NoWriter, h}
    /\ procs' = [procs EXCEPT !.call[h].pc = "done",
                              !.call[h].ret = "OperationalError"]
    /\ UNCHANGED <<songs, tags, ratings, playlists, playlist_songs, seq, clock,
                   last, imported, accepted, run, playVars, pager, scroller,
                   conv, job, txn, harvest, detail, parsed>>

RaceCommit(h) ==
    /\ procs.pc = "on"
    /\ procs.call[h].pc = "commit"
    /\ playlist_songs' =
           playlist_songs \cup {EntryOf(procs.call[h], procs.playlist_id)}
    /\ procs' = [procs EXCEPT !.call[h].pc = "done", !.call[h].ret = "True",
                              !.writer = NoWriter]
    /\ UNCHANGED <<songs, tags, ratings, playlists, seq, clock,
                   last, imported, accepted, run, playVars, pager, scroller,
                   conv, job, txn, harvest, detail, parsed>>

NextRace ==
    \/ RaceSetup
    \/ \E playlist_id \in PlaylistIds, a, b \in SongIds :
           RaceStart(playlist_id, a, b)
    \/ \E h \in Handlers : RaceSelect(h)
    \/ \E h \in Handlers : RaceInsert(h)
    \/ \E h \in Handlers : RaceLocked(h)
    \/ \E h \in Handlers : RaceCommit(h)

SpecRace == InitRace /\ [][NextRace]_vars

(***************************************************************************)
(* Vocabulary of the properties.                                           *)
(***************************************************************************)
\* the canonical identity: 8-4-4-4-12 groups of lower-case hex digits
IsCanonicalId(tok) ==
    /\ Len(tok) = 36
    /\ \A k \in 1..36 :
           IF k \in {9, 14, 19, 24} THEN tok[k] = "-" ELSE tok[k] \in HexDigits

\* url contains a /song/ segment followed by a canonical identity
HasCanonicalId(url) ==
    \E i \in 1..Len(url) :
        /\ i + 41 <= Len(url)
        /\ SubSeq(url, i, i + 5) = SongSeg
        /\ IsCanonicalId(SubSeq(url, i + 6, i + 41))

\* the tags the tag relation holds for a song
TagsOf(tbl, song_id) == {r.tag : r \in {x \in tbl : x.song_id = song_id}}

\* all the tags of a record
AllTags(taglist) == {taglist[i] : i \in 1..Len(taglist)}

\* the tags of a record that are not empty and do not start with v or V
StoredTags(taglist) == {t \in AllTags(taglist) : t # <<>> /\ ~IsVersionTag(t)}

\* song rows without their import time
Timeless(rows) == {[r EXCEPT !.extracted_at = 0] : r \in rows}

\* two songs tables with the same rows up to extracted_at
SameButTime(a, b) ==
    Cardinality(a) = Cardinality(b) /\ Timeless(a) = Timeless(b)

\* the last record of a batch that yields identity id
LastOf(batch, id) ==
    batch[Max({i \in 1..Len(batch) : SongIdOf[batch[i].url] = id})]

(***************************************************************************)
(* C1  Importing a batch a second time, right after the first, leaves the  *)
(* catalog as the first import left it: the same song rows with the same   *)
(* value in every column, and the same tag rows.                           *)
(***************************************************************************)
C1_ImportTwiceSameCatalog ==
    run.pc \in {"join", "done"} =>
        songs = run.once.songs /\ tags = run.once.tags

\* C1 as amended: the same holds for every column but extracted_at, which
\* the second import sets again from the clock.
C1_ImportTwiceSameButTime ==
    run.pc \in {"join", "done"} =>
        SameButTime(songs, run.once.songs) /\ tags = run.once.tags

\* a two-record batch was imported twice over an earlier import, and the
\* second import moved extracted_at
C1_Witness ==
    /\ run.pc = "join"
    /\ Len(run.b2) >= 2
    /\ run.b1 # <<>>
    /\ Cardinality(songs) = 2
    /\ songs # run.once.songs

C3_OnlyCanonicalIdentities ==
    /\ \A r \in songs : IsCanonicalId(r.id)
    /\ (last.op = "add_song" /\ ~HasCanonicalId(last.song.url)) => ~last.ret

(***************************************************************************)
(* C4  The songs table holds exactly one row for every identity for which  *)
(* add_song has returned True, and no other row.                           *)
(***************************************************************************)
C4_OneRowPerIdentity ==
    /\ \A r1 \in songs, r2 \in songs : r1.id = r2.id => r1 = r2
    /\ {r.id : r \in songs} = imported

\* two identities are in the catalog, one of them imported more than once
C4_Witness ==
    /\ Cardinality(imported) = 2
    /\ {TagA, TagC} \subseteq TagsOf(tags, Id1)
    /\ \E r \in songs : r.id = Id1 /\ r.extracted_at > 0

(***************************************************************************)
(* C5  Importing b1 and then b2 gives the catalog that one import of       *)
(* b1 \o b2 gives, column by column.                                       *)
(***************************************************************************)
C5_SplitImportEqualsJoined ==
    run.pc = "done" => run.once = run.joined

\* C5 as amended: the two catalogs agree in every column but extracted_at,
\* and the row of an identity has the title, url and suno_version of the
\* last record of b1 \o b2 with that identity.
C5_SplitImportEqualsJoinedButTime ==
    run.pc = "done" =>
        /\ SameButTime(run.once.songs, run.joined.songs)
        /\ run.once.tags = run.joined.tags
        /\ \A id \in BatchIds(run.b1 \o run.b2) :
               \E r \in run.once.songs :
                   LET w == LastOf(run.b1 \o run.b2, id)
                   IN  /\ r.id = id
                       /\ r.title = w.title
                       /\ r.url = w.url
                       /\ r.suno_version = SunoVersion(w.tags)

\* both batches hold the same identity with different titles, and the two
\* catalogs differ in extracted_at
C5_Witness ==
    /\ run.pc = "done"
    /\ \E i \in 1..Len(run.b1), j \in 1..Len(run.b2) :
           /\ SongIdOf[run.b1[i].url] = Id1
           /\ SongIdOf[run.b2[j].url] = Id1
           /\ run.b1[i].title # run.b2[j].title
    /\ run.once.songs # run.joined.songs

(***************************************************************************)
(* C6  rate_song with a value outside 1..5 returns False, raises nothing   *)
(* and leaves the ratings table as it was; with a value in 1..5 it returns *)
(* True and get_rating then returns that value.                            *)
(***************************************************************************)
C6_RatingRangeEnforced ==
    [][last'.op = "rate_song" =>
          IF last'.rating \in 1..5
          THEN /\ last'.ret
               /\ ~last'.raised
               /\ get_rating(ratings', last'.song_id) = last'.rating
          ELSE /\ ~last'.ret
               /\ ~last'.raised
               /\ ratings' = ratings]_vars

\* a rating of 7 was refused for a song that keeps its earlier rating of 3
C6_Witness ==
    /\ last.op = "rate_song"
    /\ last.rating = 7
    /\ ~last.ret
    /\ songs # {}
    /\ get_rating(ratings, last.song_id) = 3

(***************************************************************************)
(* C7  Every song identity has at most one rating row; its value is in     *)
(* 1..5 and is the value of the last accepted rate_song for that identity. *)
(***************************************************************************)
C7_OneRatingPerSong ==
    /\ \A r \in ratings : r.rating \in 1..5 /\ r.song_id \in RatedIds
    /\ \A id \in RatedIds :
           LET rows == {r \in ratings : r.song_id = id}
           IN  IF accepted[id].value = NoRating
               THEN rows = {}
               ELSE /\ Cardinality(rows) = 1
                    /\ \A r \in rows : r.rating = accepted[id].value

\* a song was rated again with another value and has a single row
C7_Witness ==
    /\ last.op = "rate_song"
    /\ last.ret
    /\ accepted[last.song_id].rerated
    /\ \E r \in ratings : r.song_id = last.song_id /\ r.rated_at > 0
    /\ \E r \in ratings : r.song_id # last.song_id

(***************************************************************************)
(* C8  add_to_playlist for a (playlist, song) pair that is already in the  *)
(* playlist returns False and changes no row, so the pair keeps its one    *)
(* entry at the position of the first add, which is 1 when the playlist    *)
(* was empty.                                                              *)
(***************************************************************************)
C8_SecondAddIsNoOp ==
    [][last'.op = "add_to_playlist" =>
          LET before == {r \in playlist_songs :
                            r.playlist_id = last'.playlist_id}
              mine == {r \in playlist_songs' :
                          /\ r.playlist_id = last'.playlist_id
                          /\ r.song_id = last'.song_id}
          IN  /\ Cardinality(mine) = 1
              /\ (\E r \in before : r.song_id = last'.song_id) =>
                     ~last'.ret /\ playlist_songs' = playlist_songs
              /\ before = {} => \A r \in mine : r.position = 1]_vars

\* the second add of a pair was refused and its entry is at position 1
C8_Witness ==
    /\ last.op = "add_to_playlist"
    /\ ~last.ret
    /\ \E p \in playlists : p.id = last.playlist_id
    /\ \E r \in songs : r.id = last.song_id
    /\ \E r \in playlist_songs :
           /\ r.playlist_id = last.playlist_id
           /\ r.song_id = last.song_id
           /\ r.position = 1

(***************************************************************************)
(* C9  The positions of the n entries of a playlist are exactly 1..n, and  *)
(* an appended entry gets the greatest position of the playlist plus one.  *)
(***************************************************************************)
EntriesOf(tbl, playlist_id) == {r \in tbl : r.playlist_id = playlist_id}

C9_PositionsAreDense ==
    [][\A p \in PlaylistIds :
          LET before == EntriesOf(playlist_songs, p)
              after == EntriesOf(playlist_songs', p)
          IN  /\ {r.position : r \in after} = 1..Cardinality(after)
              /\ before \subseteq after
              /\ \A r \in after \ before :
                     r.position = (IF before = {} THEN 0
                                   ELSE Max({x.position : x \in before})) + 1]_vars

\* an add was refused in a playlist of two entries while the other playlist
\* has an entry of its own
C9_Witness ==
    /\ last.op = "add_to_playlist"
    /\ ~last.ret
    /\ Cardinality(EntriesOf(playlist_songs, last.playlist_id)) = 2
    /\ \E r \in playlist_songs : r.playlist_id # last.playlist_id

(***************************************************************************)
(* C10  add_to_playlist returns False and inserts nothing when no playlist *)
(* has the playlist id or no song has the song identity, so every entry    *)
(* refers to a row of playlists and to a row of songs.                     *)
(***************************************************************************)
C10_EntriesReferToRows ==
    /\ \A r \in playlist_songs :
           /\ \E p \in playlists : p.id = r.playlist_id
           /\ \E t \in songs : t.id = r.song_id
    /\ (last.op = "add_to_playlist" /\ last.ret) =>
           /\ \E p \in playlists : p.id = last.playlist_id
           /\ \E t \in songs : t.id = last.song_id

(***************************************************************************)
(* C11: the play history is append-only. Every record_play call adds       *)
(* exactly one event, whose id no earlier event has, so get_play_count of  *)
(* a song is the number of record_play calls made for it; every other      *)
(* operation (re-import of the song, rating, playlist changes) leaves the  *)
(* table as it is, and no step removes or rewrites an existing event.      *)
(***************************************************************************)
C11_PlayHistoryAppendOnly ==
    /\ [](\A song_id \in RatedIds :
              get_play_count(play_history, song_id) = plays[song_id])
    /\ [][/\ play_history \subseteq play_history'
           /\ IF last'.op = "record_play"
              THEN \E e \in play_history' :
                       /\ play_history' = play_history \cup {e}
                       /\ e.song_id = last'.song_id
                       /\ \A old \in play_history : old.id # e.id
              ELSE play_history' = play_history]_vars

\* a song with two plays has been imported again, rated and put in a
\* playlist, and a song never imported has a play of its own
C11_Witness ==
    /\ plays[Id1] = 2
    /\ plays[NoSuchId] = 1
    /\ get_play_count(play_history, Id1) = 2
    /\ \E r \in songs : r.id = Id1 /\ r.title = "t2"
    /\ \E r \in ratings : r.song_id = Id1
    /\ \E r \in playlist_songs : r.song_id = Id1

(***************************************************************************)
(* C12: against a site of N <= max_pages pages, whose link set stops       *)
(* changing after page N, _extract_all_pages_for_tab harvests pages 1..N   *)
(* in turn and nothing else, and returns the records of the links of       *)
(* those pages, no identity twice.                                         *)
(***************************************************************************)
PagesUpTo(n) == [k \in 1..n |-> k]

LinksUpTo(site, n) == UNION {Links(site[k]) : k \in 1..n}

UrlsOf(records) == {records[i].url : i \in 1..Len(records)}

C12_HarvestsPagesOneToN ==
    (pager.pc = "returned" /\ Len(pager.env.site) <= pager.env.max_pages) =>
        LET n == Len(pager.env.site)
            all_songs == pager.out.all_songs
        IN  /\ pager.out.visits = PagesUpTo(n)
            /\ UrlsOf(all_songs) = LinksUpTo(pager.env.site, n) \ pager.seen
            /\ \A i, j \in 1..Len(all_songs) :
                   i # j => LinkIdOf[all_songs[i].url] # LinkIdOf[all_songs[j].url]

(***************************************************************************)
(* C13: scroll_to_load_all never performs more than max_scrolls            *)
(* iterations, and on a page that every iteration leaves higher or with    *)
(* more song links it returns after exactly max_scrolls iterations.        *)
(***************************************************************************)
Iterations == Len(scroller.seen)

C13_AtMostMaxScrolls ==
    scroller.pc # "off" =>
        /\ Iterations <= scroller.max_scrolls
        /\ (scroller.pc = "done" /\ scroller.grew) =>
               Iterations = scroller.max_scrolls

\* a page that grew MaxScrolls times, by its height only
C13_Witness ==
    /\ scroller.pc = "done"
    /\ scroller.grew
    /\ scroller.max_scrolls = MaxScrolls
    /\ Iterations = MaxScrolls
    /\ scroller.page.count = 0

(***************************************************************************)
(* C20: scroll_to_load_all stops with scroll_count below max_scrolls only  *)
(* when each of the last 5 iterations found neither the height nor the     *)
(* link count changed; an iteration that found a change leaves the stall   *)
(* counter at 0; and on a page that never changes the loop stops at its    *)
(* fifth iteration, every iteration of it being a stall.                   *)
(***************************************************************************)
C20_StopsAtFifthStall ==
    scroller.pc # "off" =>
        /\ (scroller.pc = "done" /\ scroller.scroll_count < scroller.max_scrolls) =>
               /\ Iterations >= StallLimit
               /\ \A i \in (Iterations - StallLimit + 1)..Iterations :
                      ~scroller.seen[i]
        /\ (Iterations > 0 /\ scroller.seen[Iterations]) =>
               scroller.no_change_count = 0
        /\ (scroller.pc = "done" /\ scroller.still
            /\ scroller.max_scrolls >= StallLimit) =>
               Iterations = StallLimit

(***************************************************************************)
(* C14: parse_duration(format_duration(n)) = n for every n >= 0; for a     *)
(* text of the form M:SS or H:MM:SS, format_duration(parse_duration(s)) is *)
(* the canonical text of the same number of seconds ("3:24", "1:05:30"     *)
(* and "0:30" are their own); and a text that is not a duration parses to  *)
(* 0.                                                                      *)
(***************************************************************************)
AllDigits(field) == Len(field) > 0 /\ \A i \in 1..Len(field) : IsDigit(field[i])

\* colon-separated fields of digits, all but the first of two digits
IsForm(text) ==
    LET parts == Split(text)
    IN  /\ Len(parts) \in {2, 3}
        /\ \A k \in 1..Len(parts) : AllDigits(parts[k])
        /\ \A k \in 2..Len(parts) : Len(parts[k]) = 2

\* the seconds a text of the form stands for
FormSeconds(text) ==
    LET parts == Split(text)
    IN  IF Len(parts) = 2 THEN 60 * Number(parts[1]) + Number(parts[2])
        ELSE 3600 * Number(parts[1]) + 60 * Number(parts[2]) + Number(parts[3])

\* of the form, every field in range, no leading zero, no hours of 0
IsCanonical(text) ==
    LET parts == Split(text)
    IN  /\ IsForm(text)
        /\ Len(parts[1]) = 1 \/ parts[1][1] # "0"
        /\ \A k \in 2..Len(parts) : Number(parts[k]) < 60
        /\ Len(parts) = 2 => Number(parts[1]) < 60
        /\ Len(parts) = 3 => Number(parts[1]) > 0

\* two or three colon-separated fields of digits, blanks around allowed
IsDurationText(text) ==
    LET parts == Split(Strip(text))
    IN  /\ Len(parts) \in {2, 3}
        /\ \A k \in 1..Len(parts) : AllDigits(parts[k])

C14_DurationRoundTrip ==
    /\ conv.pc = "formatted" => conv.back = conv.n
    /\ (conv.pc = "parsed" /\ IsForm(conv.s)) =>
           /\ IsCanonical(conv.text)
           /\ FormSeconds(conv.text) = FormSeconds(conv.s)
           /\ conv.s \in {Text324, Text10530, Text030} => conv.text = conv.s
    /\ (conv.pc = "parsed" /\ ~IsDurationText(conv.s)) => conv.secs = 0

(***************************************************************************)
(* C15: search_songs(query, fields) returns exactly the songs in which the *)
(* query occurs, letter case aside, as a substring of one of the fields,   *)
(* whatever characters the query has.                                      *)
(***************************************************************************)
\* query occurs in text, letter case aside
Occurs(query, text) ==
    \E i \in 0..(Len(text) - Len(query)) :
        \A j \in 1..Len(query) : Fold(text[i + j]) = Fold(query[j])

C15_SearchIsSubstringMatch ==
    last.op = "search_songs" =>
        last.ret = {r \in songs : \E k \in 1..Len(last.fields) :
                                      Occurs(last.query, r[last.fields[k]])}

(***************************************************************************)
(* C16: import_from_json returns the number of records of the batch whose  *)
(* URL yields an identity. A record whose URL yields none is not counted,  *)
(* and the records before and after it are imported all the same: each     *)
(* has its row, with the title of the last record of its identity, and its *)
(* stored tags. The empty batch returns 0.                                 *)
(***************************************************************************)
Yielding(batch) == {i \in 1..Len(batch) : SongIdOf[batch[i].url] # NULL}

C16_CountsRecordsWithIdentity ==
    last.op = "import_from_json" =>
        /\ last.ret = Cardinality(Yielding(last.batch))
        /\ last.batch = <<>> => last.ret = 0
        /\ \A i \in Yielding(last.batch) :
               LET id == SongIdOf[last.batch[i].url]
               IN  /\ \E r \in songs :
                          r.id = id /\ r.title = LastOf(last.batch, id).title
                   /\ StoredTags(last.batch[i].tags) \subseteq TagsOf(tags, id)

\* a batch of three with a record in the middle that yields no identity
C16_Witness ==
    /\ last.op = "import_from_json"
    /\ Len(last.batch) = 3
    /\ Yielding(last.batch) = {1, 3}
    /\ last.ret = 2
    /\ Cardinality(songs) = 2

C18_DislikedFilteredFirst ==
    (job.pc # "off" /\ job.exclude_disliked)
    => /\ \A i \in 1..Len(job.visited) : ~job.visited[i].disliked
       /\ \A k \in 1..Len(job.output_files) :
              \A i \in 1..Len(job.output_files[k].songs) :
                  ~job.output_files[k].songs[i].disliked

\* a harvest with a disliked record was filtered, enriched and saved
C18_Witness ==
    /\ job.pc = "returned"
    /\ job.exclude_disliked
    /\ \E i \in 1..Len(job.harvested) : job.harvested[i].disliked
    /\ Len(job.visited) > 0
    /\ Len(job.output_files) > 0

\* the records of the batch the import is through with
RecordsDone == txn.i - 1

\* C19: at every point of an import, cut short or not, the database file
\* holds exactly what importing the first records of the batch one by one
\* leaves: all of them up to the record being imported, and of that record
\* nothing until its commit and then its song row with all its tags (as
\* long as no tag insert raised an error that add_song passed over).
C19_CutImportLeavesWholeRecords ==
    (txn.pc # "off" /\ ~txn.swallowed)
    => LET whole == import_from_json(EmptyCatalog,
                                     SubSeq(txn.batch, 1, RecordsDone),
                                     txn.times)
       IN  /\ Len(txn.times) = RecordsDone
           /\ Catalog = [songs |-> whole.songs, tags |-> whole.tags]
           /\ txn.count = whole.count

\* the import is cut between the tags of a record that replaces the song
\* row imported before it
C19_Witness ==
    /\ txn.pc = "interrupted"
    /\ txn.cut = "tags"
    /\ txn.k = 2
    /\ txn.i = 2
    /\ ~txn.swallowed
    /\ txn.batch[2] = SongAgain
    /\ \E r \in songs : r.id = Id1

\* the URLs of the records of all calls so far, call by call
ReturnedUrls ==
    [c \in 1..Len(harvest.returned) |->
        [i \in 1..Len(harvest.returned[c].songs) |->
            harvest.returned[c].songs[i].url]]

\* C21: the URLs of the records extract_all_songs has returned, within a
\* call and across calls, are pairwise distinct; extracted_urls is the set
\* of these URLs; a call on a page that has not changed since the call
\* before it returns the empty list.
C21_NeverReturnsAUrlTwice ==
    harvest.pc = "on"
    => /\ \A c, d \in 1..Len(ReturnedUrls) :
              \A i \in 1..Len(ReturnedUrls[c]), j \in 1..Len(ReturnedUrls[d]) :
                  ReturnedUrls[c][i] = ReturnedUrls[d][j] => (c = d /\ i = j)
       /\ harvest.extracted_urls =
              UNION {{ReturnedUrls[c][i] : i \in 1..Len(ReturnedUrls[c])} :
                        c \in 1..Len(ReturnedUrls)}
       /\ \A c \in 1..Len(harvest.returned) :
              ~harvest.returned[c].changed => harvest.returned[c].songs = <<>>

\* a page with the same link twice was harvested, harvested again unchanged,
\* and a later page brought one new record beside a known one
C21_Witness ==
    /\ Len(harvest.returned) = 3
    /\ Len(harvest.returned[1].songs) = 1
    /\ ~harvest.returned[2].changed
    /\ harvest.returned[3].changed
    /\ Len(harvest.returned[3].songs) = 1
    /\ harvest.page = PageBC
    /\ Cardinality(harvest.extracted_urls) = 2

\* C22: in a call of _extract_all_pages_for_tab, a next-page action that
\* leaves the set of song links as it was is reported as no advance by
\* _click_next_page, and no page is harvested after a page with the same
\* set of song links.
C22_SameLinksMeansLastPage ==
    pager.pc = "returned"
    => /\ \A k \in 1..Len(pager.out.clicks) :
              pager.out.clicks[k].before = pager.out.clicks[k].after
              => ~pager.out.clicks[k].ret
       /\ \A k \in 1..(Len(pager.out.visits) - 1) :
              Links(pager.env.site[pager.out.visits[k]])
                  # Links(pager.env.site[pager.out.visits[k + 1]])

\* C23: no record leaves extract_detailed_info with lyrics or with a
\* description shorter than it had when it was passed in.
C23_EnrichmentNeverShortens ==
    detail.pc # "off"
    => \A i \in 1..Len(detail.songs) :
           /\ detail.songs[i].lyrics.chars >= detail.before[i].lyrics.chars
           /\ detail.songs[i].description.chars
                  >= detail.before[i].description.chars

\* C24: extract_detailed_info raises nothing for the failure of a record;
\* when it returns it has visited every record once and in order, the list
\* has the records it had, in their order, a record whose page could not be
\* loaded is as it was, and every tag a record had is among its tags.
C24_FailedRecordIsSkipped ==
    /\ detail.pc # "raised"
    /\ detail.pc = "returned"
       => /\ detail.visited = [i \in 1..Len(detail.before) |-> i]
          /\ Len(detail.songs) = Len(detail.before)
          /\ \A i \in 1..Len(detail.songs) :
                 /\ detail.songs[i].url = detail.before[i].url
                 /\ Range(detail.before[i].tags) \subseteq Range(detail.songs[i].tags)
                 /\ detail.visits[i].raises = "get"
                    => detail.songs[i] = detail.before[i]

\* the first record failed, and the second got the tags of its page beside
\* the tag it had
C24_Witness ==
    /\ detail.pc = "returned"
    /\ Len(detail.songs) = 2
    /\ detail.failed = {1}
    /\ detail.before[2].tags = <<"jazz">>
    /\ Range(detail.songs[2].tags) = {"jazz", "pop", "live"}

\* a version marker: the letter v or V followed by a digit, as in v4, V3.5
IsVersionMarker(tag) ==
    Len(tag) >= 2 /\ tag[1] \in {"v", "V"} /\ IsDigit(tag[2])

\* the first version marker of a tag list, NULL when it has none
FirstVersionMarker(taglist) ==
    LET ms == {i \in 1..Len(taglist) : IsVersionMarker(taglist[i])}
    IN  IF ms = {} THEN NULL ELSE taglist[Min(ms)]

\* C25: after an accepted add_song every tag of the record that is neither
\* empty nor a version marker is a tag of the identity, no tag row holds a
\* version marker, and suno_version of the song row is the first version
\* marker of the record, null when it has none.
C25_OnlyVersionMarkersWithheld ==
    (last.op = "add_song" /\ last.ret)
    => LET id == SongIdOf[last.song.url]
       IN  /\ \A t \in AllTags(last.song.tags) :
                  (t # <<>> /\ ~IsVersionMarker(t)) => t \in TagsOf(tags, id)
           /\ \A r \in tags : ~IsVersionMarker(r.tag)
           /\ \A r \in songs :
                  r.id = id => r.suno_version = FirstVersionMarker(last.song.tags)

\* C26: the record _parse_song_element returns has no tag twice in its
\* tags, and for a fragment without a song link it returns None.
C26_TagsAreDeduplicated ==
    parsed.pc = "returned"
    => IF HasLink(parsed.element)
       THEN /\ parsed.out.ret = "record"
            /\ \A i, j \in 1..Len(parsed.out.tags) :
                   parsed.out.tags[i] = parsed.out.tags[j] => i = j
       ELSE parsed.out = None

\* C27: every row of tags, of ratings and of play_history has the song_id
\* of a row of songs.
C27_RowsReferToSongs ==
    LET ids == {r.id : r \in songs}
    IN  /\ \A r \in tags : r.song_id \in ids
        /\ \A r \in ratings : r.song_id \in ids
        /\ \A r \in play_history : r.song_id \in ids

\* the columns of a row that update_audio_info sets
LocalColumns(r) ==
    <<r.local_audio_path, r.local_cover_path, r.downloaded_at, r.file_size,
      r.audio_format, r.bpm, r.musical_key, r.waveform_path>>

\* C28: an add_song of an identity that has a row leaves the columns set by
\* update_audio_info in that row as they were.
C28_ReimportKeepsLocalColumns ==
    [][last'.op = "add_song"
       => \A r \in songs : \A q \in songs' :
              q.id = r.id => LocalColumns(q) = LocalColumns(r)]_vars

\* the tab of the first call of _extract_all_pages_for_tab that returned a
\* record with the URL
FirstHarvestedOn(url) ==
    LET Has(k) == \E i \in 1..Len(job.chunks[k].songs) :
                      job.chunks[k].songs[i].url = url
        first == CHOOSE k \in 1..Len(job.chunks) :
                     Has(k) /\ \A m \in 1..(k - 1) : ~Has(m)
    IN  job.chunks[first].tab

\* C29: in a run_extraction over tabs the list of records (as concatenated,
\* and as it goes on after the filter) has no two records with the same URL,
\* each record carries the source_tab of the first tab whose harvest returned
\* its URL, and every record returned by _extract_all_pages_for_tab(tab)
\* carries source_tab = tab.
C29_OneRecordPerUrlAcrossTabs ==
    (job.pc # "off" /\ job.tabs # <<>>)
    => /\ \A list \in {job.songs, job.harvested} :
              /\ \A i, j \in 1..Len(list) :
                     list[i].url = list[j].url => i = j
              /\ \A i \in 1..Len(list) :
                     list[i].source_tab = FirstHarvestedOn(list[i].url)
       /\ \A k \in 1..Len(job.chunks) :
              \A i \in 1..Len(job.chunks[k].songs) :
                  job.chunks[k].songs[i].source_tab = job.chunks[k].tab

\* both tabs were harvested, both show the song of HrefB, and its one record
\* is labelled creations while another record is labelled likes
C29_Witness ==
    /\ job.pc = "filter"
    /\ job.tabs = <<"creations", "likes">>
    /\ \A tab \in {"creations", "likes"} :
           \E p \in 1..Len(job.sites[tab]) :
               song_url(HrefB) \in Links(job.sites[tab][p])
    /\ \E i \in 1..Len(job.harvested) :
           /\ job.harvested[i].url = song_url(HrefB)
           /\ job.harvested[i].source_tab = "creations"
    /\ \E i \in 1..Len(job.harvested) : job.harvested[i].source_tab = "likes"

\* C30: while and after two add_to_playlist calls for different songs and
\* the same playlist run at once, no two entries of a playlist have the same
\* position, and when both calls are over and neither song was in the
\* playlist before, both have an entry.
C30_InterleavedAddsGetDistinctPositions ==
    procs.pc = "on"
    => /\ \A r, q \in playlist_songs :
              (r.playlist_id = q.playlist_id /\ r.position = q.position)
              => r = q
       /\ (/\ \A h \in Handlers : procs.call[h].pc = "done"
           /\ \A h \in Handlers :
                  ~PairConflict(procs.before,
                                EntryOf(procs.call[h], procs.playlist_id)))
          => \A h \in Handlers :
                 PairConflict(playlist_songs,
                              EntryOf(procs.call[h], procs.playlist_id))

====
